---- MODULE Spec2Model ----
(***************************************************************************)
(* Event-trigger-action system: compiled condition trees, the trigger      *)
(* dispatcher with its subscription multimap, the cascade of actions that  *)
(* are fed back as events, and the action queue.                           *)
(*                                                                         *)
(* The host event type is the GameEvent of src/src/tests.rs.  f64 values   *)
(* are exact rationals <<numerator, denominator>>; <<0, 0>> is NaN and     *)
(* <<1, 0>> is +infinity.  Vec indices are 1-based here (trigger index k   *)
(* of the program is k + 1 in the model).  A panic (failed assert! or      *)
(* unwrap) ends the life of the system: it is recorded in `aborted` and    *)
(* no operation is possible afterwards.                                    *)
(***************************************************************************)
EXTENDS Integers, Sequences, FiniteSets, TLC

\* ------------------------------------------------------------------------
\* Bounds of the model

\* health payloads of HealthChanged events range over 1..MaxHealth
MaxHealth == 3

\* ------------------------------------------------------------------------
\* f64 arithmetic on exact rationals

RECURSIVE GCD(_, _)
GCD(a, b) == IF b = 0 THEN a ELSE GCD(b, a % b)

NaN == <<0, 0>>

Infinity == <<1, 0>>

Norm(n, d) ==
    IF d = 0 THEN (IF n = 0 THEN NaN ELSE Infinity)
    ELSE LET g == GCD(n, d) IN <<n \div g, d \div g>>

F64(n) == <<n, 1>>

IsNaN(a) == a = NaN

is_finite(a) == a[2] # 0

FAdd(a, b) ==
    IF IsNaN(a) \/ IsNaN(b) THEN NaN
    ELSE IF a[2] = 0 \/ b[2] = 0 THEN Infinity
    ELSE Norm(a[1] * b[2] + b[1] * a[2], a[2] * b[2])

FMul(a, b) ==
    IF IsNaN(a) \/ IsNaN(b) THEN NaN
    ELSE IF a[2] = 0 \/ b[2] = 0
         THEN (IF a[1] = 0 \/ b[1] = 0 THEN NaN ELSE Infinity)
    ELSE Norm(a[1] * b[1], a[2] * b[2])

FDiv(a, b) ==
    IF IsNaN(a) \/ IsNaN(b) THEN NaN
    ELSE IF b[2] = 0 THEN (IF a[2] = 0 THEN NaN ELSE F64(0))
    ELSE IF a[2] = 0 THEN Infinity
    ELSE Norm(a[1] * b[2], a[2] * b[1])

\* a <= b on f64: false as soon as one side is NaN
FLeq(a, b) ==
    IF IsNaN(a) \/ IsNaN(b) THEN FALSE
    ELSE IF b[2] = 0 THEN TRUE
    ELSE IF a[2] = 0 THEN FALSE
    ELSE a[1] * b[2] <= b[1] * a[2]

\* f64::max and f64::min return the other operand when one is NaN
FMax(a, b) ==
    IF IsNaN(a) THEN b ELSE IF IsNaN(b) THEN a
    ELSE IF FLeq(a, b) THEN b ELSE a

FMin(a, b) ==
    IF IsNaN(a) THEN b ELSE IF IsNaN(b) THEN a
    ELSE IF FLeq(a, b) THEN a ELSE b

\* f64::clamp(0.0, 1.0); NaN stays NaN
Clamp01(a) ==
    IF IsNaN(a) THEN NaN
    ELSE IF FLeq(a, F64(0)) THEN F64(0)
    ELSE IF FLeq(F64(1), a) THEN F64(1)
    ELSE a

RECURSIVE FSum(_)
FSum(s) == IF s = <<>> THEN F64(0) ELSE FAdd(s[1], FSum(Tail(s)))

\* ------------------------------------------------------------------------
\* The host's event type (GameEvent, GameAction, GameEventIdentifier)

GameActions == {"ActivateQuest", "CompleteQuest", "FailQuest"}

KilledMonster(id) == [kind |-> "KilledMonster", id |-> id, health |-> 0, action |-> ""]

FailedMonster(id) == [kind |-> "FailedMonster", id |-> id, health |-> 0, action |-> ""]

HealthChanged(h) == [kind |-> "HealthChanged", id |-> 0, health |-> h, action |-> ""]

Action(a) == [kind |-> "Action", id |-> 0, health |-> 0, action |-> a]

\* impl From<GameAction> for GameEvent
From(action) == Action(action)

\* GameEvent::identifier: the payload (health) is dropped
identifier(event) == [kind |-> event.kind, id |-> event.id, action |-> event.action]

Cmp(a, b) == IF a < b THEN "Less" ELSE IF a = b THEN "Equal" ELSE "Greater"

\* impl PartialOrd for GameEvent; "None" is Option::None
partial_cmp(self, other) ==
    IF self.kind = "HealthChanged" /\ other.kind = "HealthChanged"
    THEN Cmp(self.health, other.health)
    ELSE "None"

\* GameEvent::partial_cmp_progress; NaN stands for Option::None here
partial_cmp_progress(self, other, target_ordering) ==
    IF self.kind = "HealthChanged" /\ other.kind = "HealthChanged"
    THEN Clamp01(CASE target_ordering = "Less" ->
                        FDiv(F64(other.health - 1), F64(self.health))
                   [] target_ordering = "Equal" ->
                        FMin(FDiv(F64(self.health), F64(other.health)),
                             FDiv(F64(other.health), F64(self.health)))
                   [] target_ordering = "Greater" ->
                        FDiv(F64(self.health), F64(other.health + 1)))
    ELSE NaN

\* ------------------------------------------------------------------------
\* Uncompiled conditions (enum TriggerCondition) and their constructors

none == [kind |-> "None"]

never == [kind |-> "Never"]

event_count(event, required) ==
    [kind |-> "EventCount", event |-> event, required |-> required]

gt(reference_event) == [kind |-> "Greater", reference_event |-> reference_event]

geq(reference_event) == [kind |-> "GreaterOrEqual", reference_event |-> reference_event]

eq(reference_event) == [kind |-> "Equal", reference_event |-> reference_event]

leq(reference_event) == [kind |-> "LessOrEqual", reference_event |-> reference_event]

lt(reference_event) == [kind |-> "Less", reference_event |-> reference_event]

sequence(conditions) == [kind |-> "Sequence", conditions |-> conditions]

and(conditions) == [kind |-> "And", conditions |-> conditions]

or(conditions) == [kind |-> "Or", conditions |-> conditions]

any_n(conditions, n) == [kind |-> "AnyN", conditions |-> conditions, n |-> n]

CmpKinds == {"Greater", "GreaterOrEqual", "Equal", "LessOrEqual", "Less"}

\* ------------------------------------------------------------------------
\* Compiled conditions (struct CompiledTriggerCondition: the fields of the
\* kind together with completed, required_progress and current_progress)

RECURSIVE InsertAsc(_, _)
InsertAsc(x, s) ==
    IF s = <<>> THEN <<x>>
    ELSE IF FLeq(x, s[1]) THEN <<x>> \o s
    ELSE <<s[1]>> \o InsertAsc(x, Tail(s))

\* sort_unstable_by(|a, b| a.partial_cmp(b).unwrap()) on values without NaN
RECURSIVE SortAsc(_)
SortAsc(s) == IF s = <<>> THEN <<>> ELSE InsertAsc(s[1], SortAsc(Tail(s)))

Take(s, n) == SubSeq(s, 1, IF n < Len(s) THEN n ELSE Len(s))

TakeLast(s, n) == SubSeq(s, (IF n < Len(s) THEN Len(s) - n ELSE 0) + 1, Len(s))

RECURSIVE FMinSeq(_)
FMinSeq(s) == IF Len(s) = 1 THEN s[1] ELSE FMin(s[1], FMinSeq(Tail(s)))

RequiredOf(conditions) == [i \in 1..Len(conditions) |-> conditions[i].required_progress]
\* required_progress that leaves the fulfilled children out
Kind_required_progress_active_only(kind) ==
    CASE kind.kind = "None" -> F64(0)
      [] kind.kind = "Never" \/ kind.kind \in CmpKinds -> F64(1)
      [] kind.kind = "EventCount" -> F64(kind.required)
      [] kind.kind = "Sequence" -> FSum(RequiredOf(kind.conditions))
      [] kind.kind = "And" -> FSum(RequiredOf(kind.conditions))
      [] kind.kind = "Or" ->
            IF kind.conditions = <<>> THEN F64(0)
            ELSE FMinSeq(RequiredOf(kind.conditions))
      [] kind.kind = "AnyN" ->
            FSum(Take(SortAsc(RequiredOf(kind.conditions)), kind.n))

\* CompiledTriggerConditionKind::required_progress
Kind_required_progress(kind) ==
    CASE kind.kind = "None" -> F64(0)
      [] kind.kind = "Never" \/ kind.kind \in CmpKinds -> F64(1)
      [] kind.kind = "EventCount" -> F64(kind.required)
      [] kind.kind = "Sequence" -> FSum(RequiredOf(kind.conditions))
      [] kind.kind = "And" ->
            FSum(RequiredOf(kind.conditions \o kind.fulfilled_conditions))
      [] kind.kind = "Or" ->
            LET all == RequiredOf(kind.conditions \o kind.fulfilled_conditions)
            IN  IF all = <<>> THEN F64(0) ELSE FMinSeq(all)
      [] kind.kind = "AnyN" ->
            FSum(Take(SortAsc(RequiredOf(kind.conditions \o kind.fulfilled_conditions)),
                      kind.n))

\* CompiledTriggerConditionKind::completed
Kind_completed(kind) ==
    CASE kind.kind = "None" -> TRUE
      [] kind.kind = "Never" -> FALSE
      [] kind.kind = "EventCount" -> kind.count >= kind.required
      [] kind.kind \in CmpKinds -> kind.fulfilled
      [] kind.kind = "Sequence" -> kind.current_index > Len(kind.conditions)
      [] kind.kind = "And" -> kind.conditions = <<>>
      [] kind.kind = "Or" -> kind.conditions = <<>>
      [] kind.kind = "AnyN" -> Len(kind.fulfilled_conditions) >= kind.n

\* CompiledTriggerCondition::new
CompiledTriggerCondition_new(kind) ==
    kind @@ [required_progress |-> Kind_required_progress(kind),
             current_progress |-> F64(0),
             completed |-> Kind_completed(kind)]

IsCompleted(condition) == condition.completed

IsActive(condition) == ~condition.completed

\* compile without the assert!(!condition.completed()) on the children of a
\* Sequence
RECURSIVE compile_unchecked(_)
compile_unchecked(self) ==
    IF self.kind \in {"None", "Never"}
    THEN [abort |-> "", condition |-> CompiledTriggerCondition_new([kind |-> self.kind])]
    ELSE IF self.kind = "EventCount"
    THEN [abort |-> "",
          condition |-> CompiledTriggerCondition_new(
              [kind |-> "EventCount", identifier |-> identifier(self.event),
               count |-> 0, required |-> self.required])]
    ELSE IF self.kind \in CmpKinds
    THEN [abort |-> "",
          condition |-> CompiledTriggerCondition_new(
              [kind |-> self.kind, reference_event |-> self.reference_event,
               fulfilled |-> FALSE])]
    ELSE
      LET compiled == [i \in 1..Len(self.conditions) |->
                          compile_unchecked(self.conditions[i]).condition]
      IN
        IF self.kind = "Sequence"
        THEN [abort |-> "",
              condition |-> CompiledTriggerCondition_new(
                  [kind |-> "Sequence", current_index |-> 1,
                   conditions |-> compiled])]
        ELSE IF self.kind = "AnyN"
        THEN [abort |-> "",
              condition |-> CompiledTriggerCondition_new(
                  [kind |-> "AnyN", conditions |-> SelectSeq(compiled, IsActive),
                   fulfilled_conditions |-> SelectSeq(compiled, IsCompleted),
                   n |-> self.n])]
        ELSE [abort |-> "",
              condition |-> CompiledTriggerCondition_new(
                  [kind |-> self.kind, conditions |-> SelectSeq(compiled, IsActive),
                   fulfilled_conditions |-> SelectSeq(compiled, IsCompleted)])]

\* TriggerCondition::compile with the identity event compiler.  The result
\* is [abort |-> "", condition |-> c], or abort names the failed assertion.
RECURSIVE compile(_)
compile(self) ==
    IF self.kind \in {"None", "Never"}
    THEN [abort |-> "", condition |-> CompiledTriggerCondition_new([kind |-> self.kind])]
    ELSE IF self.kind = "EventCount"
    THEN [abort |-> "",
          condition |-> CompiledTriggerCondition_new(
              [kind |-> "EventCount", identifier |-> identifier(self.event),
               count |-> 0, required |-> self.required])]
    ELSE IF self.kind \in CmpKinds
    THEN [abort |-> "",
          condition |-> CompiledTriggerCondition_new(
              [kind |-> self.kind, reference_event |-> self.reference_event,
               fulfilled |-> FALSE])]
    ELSE
      LET children == [i \in 1..Len(self.conditions) |-> compile(self.conditions[i])]
          failed == {i \in 1..Len(children) : children[i].abort # ""}
          compiled == [i \in 1..Len(children) |-> children[i].condition]
          compiled_conditions == SelectSeq(compiled, IsActive)
          compiled_fulfilled_conditions == SelectSeq(compiled, IsCompleted)
      IN
        IF failed # {}
        THEN [abort |-> children[CHOOSE i \in failed : \A j \in failed : i <= j].abort,
              condition |-> CompiledTriggerCondition_new([kind |-> "Never"])]
        ELSE IF self.kind = "Sequence"
        THEN IF \E i \in 1..Len(compiled) : compiled[i].completed
             THEN [abort |-> "compile: assert!(!condition.completed())",
                   condition |-> CompiledTriggerCondition_new([kind |-> "Never"])]
             ELSE [abort |-> "",
                   condition |-> CompiledTriggerCondition_new(
                       [kind |-> "Sequence", current_index |-> 1,
                        conditions |-> compiled])]
        ELSE IF self.kind = "AnyN"
        THEN [abort |-> "",
              condition |-> CompiledTriggerCondition_new(
                  [kind |-> "AnyN", conditions |-> compiled_conditions,
                   fulfilled_conditions |-> compiled_fulfilled_conditions,
                   n |-> self.n])]
        ELSE [abort |-> "",
              condition |-> CompiledTriggerCondition_new(
                  [kind |-> self.kind, conditions |-> compiled_conditions,
                   fulfilled_conditions |-> compiled_fulfilled_conditions])]

\* CompiledTriggerCondition::subscriptions; FlatSubscriptions is the
\* flat_map over the active children
RECURSIVE Condition_subscriptions(_), FlatSubscriptions(_)
FlatSubscriptions(conditions) ==
    IF conditions = <<>> THEN <<>>
    ELSE Condition_subscriptions(conditions[1]) \o FlatSubscriptions(Tail(conditions))

\* subscriptions of a Sequence taken from the child at the cursor and all
\* children behind it
Condition_subscriptions_sequence_all(self) ==
    IF self.completed THEN <<>>
    ELSE CASE self.kind \in {"None", "Never"} -> <<>>
           [] self.kind = "EventCount" -> <<self.identifier>>
           [] self.kind \in CmpKinds -> <<identifier(self.reference_event)>>
           [] self.kind = "Sequence" ->
                FlatSubscriptions(SubSeq(self.conditions, self.current_index,
                                         Len(self.conditions)))
           [] self.kind \in {"And", "Or", "AnyN"} -> FlatSubscriptions(self.conditions)

Condition_subscriptions(self) ==
    IF self.completed THEN <<>>
    ELSE CASE self.kind \in {"None", "Never"} -> <<>>
           [] self.kind = "EventCount" -> <<self.identifier>>
           [] self.kind \in CmpKinds -> <<identifier(self.reference_event)>>
           [] self.kind = "Sequence" ->
                Condition_subscriptions(self.conditions[self.current_index])
           [] self.kind \in {"And", "Or", "AnyN"} -> FlatSubscriptions(self.conditions)

\* ------------------------------------------------------------------------
\* Executing an event on a compiled condition.  Every operator returns
\* [condition, updates, result, progress, abort]: the condition after the
\* call, the Vec<TriggerConditionUpdate>, the completion flag, the progress;
\* abort names the assert! or unwrap that failed ("" when none did).

Subscribe(id) == [op |-> "Subscribe", identifier |-> id]

\* Unsubscribe that builds the Subscribe variant
Unsubscribe_as_subscribe(id) == [op |-> "Subscribe", identifier |-> id]

Unsubscribe(id) == [op |-> "Unsubscribe", identifier |-> id]

Ret(condition, updates, result, progress) ==
    [condition |-> condition, updates |-> updates, result |-> result,
     progress |-> progress, abort |-> ""]

Panic(condition, message) ==
    [condition |-> condition, updates |-> <<>>, result |-> FALSE,
     progress |-> F64(0), abort |-> message]

MapUpdates(ids, op) == [i \in 1..Len(ids) |-> [op |-> op, identifier |-> ids[i]]]

\* the 1e-6 slack of the monotonicity assertion
Tolerance == <<1, 1000000>>

\* CompiledTriggerConditionKind::execute_cmp_event
execute_cmp_event(self, event, is_required_ordering, closest_required_ordering) ==
    IF self.fulfilled THEN Panic(self, "execute_cmp_event: assert!(!*fulfilled)")
    ELSE LET ordering == partial_cmp(event, self.reference_event)
             progress == partial_cmp_progress(event, self.reference_event,
                                              closest_required_ordering)
         IN  IF ordering = "None"
             THEN Panic(self, "execute_cmp_event: partial_cmp(..).unwrap() on None")
             ELSE IF ordering \in is_required_ordering
             THEN Ret([self EXCEPT !.fulfilled = TRUE],
                      <<Unsubscribe(identifier(self.reference_event))>>, TRUE, F64(1))
             ELSE IF IsNaN(progress)
             THEN Panic(self, "execute_cmp_event: partial_cmp_progress(..).unwrap() on None")
             ELSE Ret(self, <<>>, FALSE, progress)

RECURSIVE Condition_execute_event(_, _), Kind_execute_event(_, _), ChildLoop(_, _, _, _)

\* The `while i < conditions.len()` loop shared by And, Or and AnyN: every
\* active child executes the event once, in order; a child that completes
\* is moved to the fulfilled list.  acc collects the children that stay
\* active, the newly fulfilled ones, the updates and, per child,
\* [result, progress, required_progress].
ChildLoop(conditions, event, i, acc) ==
    IF i > Len(conditions) \/ acc.abort # "" THEN acc
    ELSE LET r == Condition_execute_event(conditions[i], event)
         IN  IF r.abort # "" THEN [acc EXCEPT !.abort = r.abort]
             ELSE ChildLoop(conditions, event, i + 1,
                    [conditions |-> IF r.result THEN acc.conditions
                                    ELSE Append(acc.conditions, r.condition),
                     fulfilled |-> IF r.result THEN Append(acc.fulfilled, r.condition)
                                   ELSE acc.fulfilled,
                     updates |-> acc.updates \o r.updates,
                     outcomes |-> Append(acc.outcomes,
                                    [result |-> r.result, progress |-> r.progress,
                                     required_progress |-> r.condition.required_progress]),
                     abort |-> ""])

EmptyLoop ==
    [conditions |-> <<>>, fulfilled |-> <<>>, updates |-> <<>>, outcomes |-> <<>>,
     abort |-> ""]

\* And: current_progress accumulates required_progress of completed
\* children and progress of the others
RECURSIVE AndProgress(_, _)
AndProgress(outcomes, current_progress) ==
    IF outcomes = <<>> THEN current_progress
    ELSE AndProgress(Tail(outcomes),
            FAdd(current_progress,
                 IF outcomes[1].result THEN outcomes[1].required_progress
                 ELSE outcomes[1].progress))

\* Or: current_progress is 1.0 at a completed child, else the running max
\* of progress / required_progress
RECURSIVE OrProgress(_, _)
OrProgress(outcomes, current_progress) ==
    IF outcomes = <<>> THEN current_progress
    ELSE OrProgress(Tail(outcomes),
            IF outcomes[1].result THEN F64(1)
            ELSE FMax(current_progress,
                      FDiv(outcomes[1].progress, outcomes[1].required_progress)))

\* AnyN: relative_progresses gets 1.0 or progress / required_progress
RelativeProgresses(outcomes) ==
    [i \in 1..Len(outcomes) |->
        IF outcomes[i].result THEN F64(1)
        ELSE FDiv(outcomes[i].progress, outcomes[i].required_progress)]

\* AnyNProgress without the division by n
AnyNProgress_no_mean(relative_progresses, n, required_progress) ==
    FMul(FSum(TakeLast(SortAsc(relative_progresses), n)), required_progress)

\* AnyN: the mean of the n largest relative progresses, scaled
AnyNProgress(relative_progresses, n, required_progress) ==
    FMul(FDiv(FSum(TakeLast(SortAsc(relative_progresses), n)), F64(n)),
         required_progress)

\* UnsubscribeRemaining that forgets the remaining children
UnsubscribeRemaining_none(result, conditions) == <<>>

\* Or and AnyN, once completed: Unsubscribe for every subscription of the
\* children that are still active
UnsubscribeRemaining(result, conditions) ==
    IF result THEN MapUpdates(FlatSubscriptions(conditions), "Unsubscribe")
    ELSE <<>>

\* CompiledTriggerConditionKind::execute_event
Kind_execute_event(self, event) ==
    CASE self.kind = "None" -> Ret(self, <<>>, TRUE, F64(0))
      [] self.kind = "Never" -> Ret(self, <<>>, FALSE, F64(0))
      [] self.kind = "EventCount" ->
            IF ~(self.count < self.required)
            THEN Panic(self, "EventCount: assert!(count < required)")
            ELSE LET count == IF self.identifier = identifier(event)
                              THEN self.count + 1 ELSE self.count
                     new == [self EXCEPT !.count = count]
                 IN  IF ~(count <= self.required)
                     THEN Panic(self, "EventCount: assert!(count <= required)")
                     ELSE IF count = self.required
                     THEN Ret(new, <<Unsubscribe(self.identifier)>>, TRUE, F64(count))
                     ELSE Ret(new, <<>>, count >= self.required, F64(count))
      [] self.kind = "Greater" ->
            execute_cmp_event(self, event, {"Greater"}, "Greater")
      [] self.kind = "GreaterOrEqual" ->
            execute_cmp_event(self, event, {"Greater", "Equal"}, "Equal")
      [] self.kind = "Equal" ->
            execute_cmp_event(self, event, {"Equal"}, "Equal")
      [] self.kind = "LessOrEqual" ->
            execute_cmp_event(self, event, {"Less", "Equal"}, "Equal")
      [] self.kind = "Less" ->
            execute_cmp_event(self, event, {"Less"}, "Less")
      [] self.kind = "Sequence" ->
            IF ~(self.current_index <= Len(self.conditions))
            THEN Panic(self, "Sequence: assert!(*current_index < conditions.len())")
            ELSE
              LET ci == self.current_index
                  progress_base == FSum(RequiredOf(Take(self.conditions, ci - 1)))
                  r == Condition_execute_event(self.conditions[ci], event)
                  conditions == [self.conditions EXCEPT ![ci] = r.condition]
                  progress_base2 == FAdd(progress_base, r.condition.required_progress)
              IN
                IF r.abort # "" THEN Panic(self, r.abort)
                ELSE IF r.result
                THEN IF ci + 1 <= Len(conditions)
                     THEN IF ~is_finite(conditions[ci + 1].current_progress)
                          THEN Panic(self, "current_progress: assert!(is_finite())")
                          ELSE Ret([self EXCEPT !.conditions = conditions,
                                                !.current_index = ci + 1],
                                   r.updates \o
                                     MapUpdates(Condition_subscriptions(conditions[ci + 1]),
                                                "Subscribe"),
                                   FALSE,
                                   FAdd(progress_base2,
                                        conditions[ci + 1].current_progress))
                     ELSE Ret([self EXCEPT !.conditions = conditions,
                                           !.current_index = ci + 1],
                              r.updates, TRUE, progress_base2)
                ELSE Ret([self EXCEPT !.conditions = conditions],
                         r.updates, FALSE, FAdd(progress_base, r.progress))
      [] self.kind = "And" ->
            IF self.conditions = <<>>
            THEN Panic(self, "And: assert!(!conditions.is_empty())")
            ELSE
              LET loop == ChildLoop(self.conditions, event, 1, EmptyLoop)
                  new == [self EXCEPT !.conditions = loop.conditions,
                            !.fulfilled_conditions = @ \o loop.fulfilled]
              IN  IF loop.abort # "" THEN Panic(self, loop.abort)
                  ELSE Ret(new, loop.updates, new.conditions = <<>>,
                           AndProgress(loop.outcomes,
                                       FSum(RequiredOf(self.fulfilled_conditions))))
      [] self.kind = "Or" ->
            IF self.fulfilled_conditions # <<>>
            THEN Panic(self, "Or: assert!(fulfilled_conditions.is_empty())")
            ELSE
              LET loop == ChildLoop(self.conditions, event, 1, EmptyLoop)
                  new == [self EXCEPT !.conditions = loop.conditions,
                            !.fulfilled_conditions = @ \o loop.fulfilled]
                  result == new.fulfilled_conditions # <<>>
                  current_progress == OrProgress(loop.outcomes, F64(0))
              IN  IF loop.abort # "" THEN Panic(self, loop.abort)
                  ELSE Ret(new,
                           loop.updates \o UnsubscribeRemaining(result, new.conditions),
                           result,
                           FMul(current_progress, Kind_required_progress(new)))
      [] self.kind = "AnyN" ->
            IF ~(Len(self.fulfilled_conditions) < self.n)
            THEN Panic(self, "AnyN: assert!(fulfilled_conditions.len() < *n)")
            ELSE
              LET loop == ChildLoop(self.conditions, event, 1, EmptyLoop)
                  new == [self EXCEPT !.conditions = loop.conditions,
                            !.fulfilled_conditions = @ \o loop.fulfilled]
                  result == Len(new.fulfilled_conditions) >= self.n
                  relative_progresses ==
                      [i \in 1..Len(self.fulfilled_conditions) |-> F64(1)]
                        \o RelativeProgresses(loop.outcomes)
                  has_nan == \E i \in 1..Len(relative_progresses) :
                                IsNaN(relative_progresses[i])
                  current_progress ==
                      AnyNProgress(relative_progresses, self.n,
                                   Kind_required_progress(new))
              IN  IF loop.abort # "" THEN Panic(self, loop.abort)
                  ELSE IF has_nan /\ Len(relative_progresses) >= 2
                  THEN Panic(self, "AnyN: a.partial_cmp(b).unwrap() on NaN")
                  ELSE Ret(new,
                           loop.updates \o UnsubscribeRemaining(result, new.conditions),
                           result,
                           IF has_nan THEN NaN ELSE current_progress)

\* CompiledTriggerCondition::execute_event after self.kind.execute_event
\* has returned r: the monotonicity assertion and the two assignments
Condition_update(self, r) ==
    IF r.abort # "" THEN Panic(self, r.abort)
    ELSE IF ~FLeq(self.current_progress, FAdd(r.progress, Tolerance))
    THEN Panic(self,
           "execute_event: assert!(current_progress >= self.current_progress - 1e-6)")
    ELSE Ret([r.condition EXCEPT !.current_progress = r.progress,
                                 !.completed = r.result],
             r.updates, r.result, r.progress)
\* execute_event without the assert!(!self.completed) at its start
Condition_execute_event_unchecked(self, event) ==
    Condition_update(self, Kind_execute_event(self, event))
\* execute_event whose Sequence hands the event on to the child it has just
\* advanced to
Condition_execute_event_through(self, event) ==
    IF self.completed THEN Panic(self, "execute_event: assert!(!self.completed)")
    ELSE LET r == Condition_update(self, Kind_execute_event(self, event))
             advanced == /\ r.abort = ""
                         /\ self.kind = "Sequence"
                         /\ r.condition.current_index = self.current_index + 1
                         /\ r.condition.current_index <= Len(self.conditions)
         IN  IF advanced
             THEN LET next == r.condition.current_index
                      c == Condition_update(r.condition.conditions[next],
                               Kind_execute_event(r.condition.conditions[next], event))
                  IN  IF c.abort # "" THEN r
                      ELSE [r EXCEPT !.condition.conditions[next] = c.condition]
             ELSE r

\* CompiledTriggerCondition::execute_event
Condition_execute_event(self, event) ==
    IF self.completed THEN Panic(self, "execute_event: assert!(!self.completed)")
    ELSE Condition_update(self, Kind_execute_event(self, event))

\* ------------------------------------------------------------------------
\* Triggers (struct Trigger, struct CompiledTrigger).  The Option of the
\* actions slot is a sequence of length 0 (None) or 1 (Some(list)).

Some(value) == <<value>>

None == <<>>

Trigger_new(id_str, condition, actions) ==
    [id_str |-> id_str, condition |-> condition, actions |-> actions]

\* CompiledTrigger::new
CompiledTrigger_new(id_str, condition, actions) ==
    [id_str |-> id_str, condition |-> condition, actions |-> Some(actions)]

\* Trigger::compile with the identity compilers
Trigger_compile(self) ==
    LET c == compile(self.condition)
    IN  [abort |-> c.abort,
         trigger |-> CompiledTrigger_new(self.id_str, c.condition, self.actions)]

\* CompiledTrigger::subscriptions
Trigger_subscriptions(self) == Condition_subscriptions(self.condition)

\* CompiledTrigger::completed
Trigger_completed(self) == self.condition.completed

\* CompiledTrigger::progress
Trigger_progress(self) ==
    <<self.condition.current_progress, self.condition.required_progress>>

\* consume_actions that clones the list and leaves the slot Some
consume_actions_keep(self) ==
    IF self.actions = None
    THEN [trigger |-> self, actions |-> <<>>,
          abort |-> "consume_actions: actions.take().unwrap() on None"]
    ELSE [trigger |-> self, actions |-> self.actions[1], abort |-> ""]

\* CompiledTrigger::consume_actions: self.actions.take().unwrap()
consume_actions(self) ==
    IF self.actions = None
    THEN [trigger |-> self, actions |-> <<>>,
          abort |-> "consume_actions: actions.take().unwrap() on None"]
    ELSE [trigger |-> [self EXCEPT !.actions = None], actions |-> self.actions[1],
          abort |-> ""]

\* Trigger_actions without the `if result` guard: the action list is
\* cloned out of the slot on every execution
Trigger_actions_always_fires(self, r) ==
    IF r.abort # "" \/ self.actions = None
    THEN [trigger |-> self, actions |-> <<>>, updates |-> <<>>, fired |-> FALSE,
          abort |-> IF r.abort # "" THEN r.abort
                    ELSE "execute_event: actions.take().unwrap() on None"]
    ELSE [trigger |-> [self EXCEPT !.condition = r.condition],
          actions |-> self.actions[1], updates |-> r.updates,
          fired |-> TRUE, abort |-> ""]

\* Trigger_actions that hands the action list out twice when the trigger
\* fires
Trigger_actions_twice(self, r) ==
    IF r.abort # ""
    THEN [trigger |-> self, actions |-> <<>>, updates |-> <<>>, fired |-> FALSE,
          abort |-> r.abort]
    ELSE IF r.result
    THEN IF self.actions = None
         THEN [trigger |-> self, actions |-> <<>>, updates |-> <<>>,
               fired |-> FALSE,
               abort |-> "execute_event: actions.take().unwrap() on None"]
         ELSE [trigger |-> [self EXCEPT !.condition = r.condition, !.actions = None],
               actions |-> self.actions[1] \o self.actions[1], updates |-> r.updates,
               fired |-> TRUE, abort |-> ""]
    ELSE [trigger |-> [self EXCEPT !.condition = r.condition], actions |-> <<>>,
          updates |-> r.updates, fired |-> FALSE, abort |-> ""]

\* CompiledTrigger::execute_event after self.condition.execute_event has
\* returned r: `if result { (self.actions.take().unwrap(), updates) }`.
\* fired tells that the actions slot was handed out by this call.
Trigger_actions(self, r) ==
    IF r.abort # ""
    THEN [trigger |-> self, actions |-> <<>>, updates |-> <<>>, fired |-> FALSE,
          abort |-> r.abort]
    ELSE IF r.result
    THEN IF self.actions = None
         THEN [trigger |-> self, actions |-> <<>>, updates |-> <<>>,
               fired |-> FALSE,
               abort |-> "execute_event: actions.take().unwrap() on None"]
         ELSE [trigger |-> [self EXCEPT !.condition = r.condition, !.actions = None],
               actions |-> self.actions[1], updates |-> r.updates,
               fired |-> TRUE, abort |-> ""]
    ELSE [trigger |-> [self EXCEPT !.condition = r.condition], actions |-> <<>>,
          updates |-> r.updates, fired |-> FALSE, abort |-> ""]

\* CompiledTrigger::execute_event
Trigger_execute_event(self, event) ==
    Trigger_actions(self, Condition_execute_event(self.condition, event))

\* ------------------------------------------------------------------------
\* The dispatcher (struct TriggerSystem): triggers and the multimap
\* subscriptions, a function identifier -> trigger index -> multiplicity.

\* every identifier the host's events and actions can have
Identifiers ==
    {identifier(KilledMonster(id)) : id \in {0, 1}}
      \cup {identifier(FailedMonster(0)), identifier(HealthChanged(1))}
      \cup {identifier(From(a)) : a \in GameActions}

EmptySubscriptions(n) == [id \in Identifiers |-> [t \in 1..n |-> 0]]

\* BTreeMultiMap::insert
MultiMap_insert(subs, id, trigger_index) ==
    [subs EXCEPT ![id][trigger_index] = @ + 1]

\* remove_key_value that drops every occurrence of the pair
MultiMap_remove_key_all(subs, id, trigger_index) ==
    [subs EXCEPT ![id][trigger_index] = 0]
\* remove_key_value that drops the identifier's entries of every trigger
MultiMap_remove_key(subs, id, trigger_index) ==
    [subs EXCEPT ![id] = [t \in DOMAIN @ |-> 0]]

\* BTreeMultiMap::remove_key_value: one occurrence of the pair, if any
MultiMap_remove_key_value(subs, id, trigger_index) ==
    [subs EXCEPT ![id][trigger_index] = IF @ > 0 THEN @ - 1 ELSE 0]

\* trigger_indices that takes every trigger, subscribed or not
trigger_indices_all(subs, id) == [t \in 1..Len(subs[id]) |-> t]
\* trigger_indices walked from the largest key down
trigger_indices_descending(subs, id) ==
    LET ascending == SelectSeq([t \in 1..Len(subs[id]) |-> t], LAMBDA t : subs[id][t] > 0)
    IN  [k \in 1..Len(ascending) |-> ascending[Len(ascending) + 1 - k]]
\* trigger_indices that lists a trigger once per entry of the pair, up to
\* twice
trigger_indices_per_entry(subs, id) ==
    SelectSeq([k \in 1..(2 * Len(subs[id])) |-> (k + 1) \div 2],
              LAMBDA t : subs[id][t] > 0)
\* trigger_indices whose unwrap_or falls back to every trigger when the
\* identifier has no entry
trigger_indices_or_all(subs, id) ==
    IF \A t \in 1..Len(subs[id]) : subs[id][t] = 0
    THEN [t \in 1..Len(subs[id]) |-> t]
    ELSE SelectSeq([t \in 1..Len(subs[id]) |-> t], LAMBDA t : subs[id][t] > 0)

\* subscriptions.get(&identifier) ... .keys().copied().collect(): the
\* distinct trigger indices under the identifier, ascending
trigger_indices(subs, id) ==
    SelectSeq([t \in 1..Len(subs[id]) |-> t], LAMBDA t : subs[id][t] > 0)

\* ApplyUpdates with the Subscribe arm left out
RECURSIVE ApplyUpdates_ignore_subscribe(_, _, _)
ApplyUpdates_ignore_subscribe(subs, updates, trigger_index) ==
    IF updates = <<>> THEN subs
    ELSE ApplyUpdates_ignore_subscribe(
            IF updates[1].op = "Subscribe" THEN subs
            ELSE MultiMap_remove_key_value(subs, updates[1].identifier, trigger_index),
            Tail(updates), trigger_index)

RECURSIVE ApplyUpdates(_, _, _)
ApplyUpdates(subs, updates, trigger_index) ==
    IF updates = <<>> THEN subs
    ELSE ApplyUpdates(
            IF updates[1].op = "Subscribe"
            THEN MultiMap_insert(subs, updates[1].identifier, trigger_index)
            ELSE MultiMap_remove_key_value(subs, updates[1].identifier, trigger_index),
            Tail(updates), trigger_index)

\* Entries of the call log: a dispatch pass starts ("pass", with the trigger
\* indices holding an entry for the identifier at that moment), a trigger
\* executes the event ("exec"), a completed trigger hands out its actions
\* at construction ("initial").
LogPass(depth, id, subscribed) ==
    [op |-> "pass", depth |-> depth, identifier |-> id, subscribed |-> subscribed,
     trigger |-> 0, fired |-> FALSE, actions |-> <<>>, updates |-> <<>>]

LogExec(depth, id, trigger_index, r) ==
    [op |-> "exec", depth |-> depth, identifier |-> id, subscribed |-> {},
     trigger |-> trigger_index, fired |-> r.fired, actions |-> r.actions,
     updates |-> r.updates]

LogInitial(trigger_index, actions) ==
    [op |-> "initial", depth |-> 0, identifier |-> identifier(KilledMonster(0)),
     subscribed |-> {}, trigger |-> trigger_index, fired |-> TRUE,
     actions |-> actions, updates |-> <<>>]

RECURSIVE TriggerSystem_execute_event(_, _, _), DispatchLoop(_, _, _, _, _), CascadeLoop(_, _, _)

\* one iteration of the dispatch loop, r being what trigger.execute_event
\* returned: the actions are appended and the deltas applied to the index
DispatchStep(acc, event, trigger_index, depth, r) ==
    IF r.abort # "" THEN [acc EXCEPT !.abort = r.abort]
    ELSE [triggers |-> [acc.triggers EXCEPT ![trigger_index] = r.trigger],
          subscriptions |-> ApplyUpdates(acc.subscriptions, r.updates, trigger_index),
          all_actions |-> acc.all_actions \o r.actions,
          log |-> Append(acc.log, LogExec(depth, identifier(event), trigger_index, r)),
          abort |-> ""]

\* the `for trigger_index in trigger_indices` loop; acc is
\* [triggers, subscriptions, all_actions, log, abort]
DispatchLoop(acc, event, indices, k, depth) ==
    IF k > Len(indices) \/ acc.abort # "" THEN acc
    ELSE DispatchLoop(
            DispatchStep(acc, event, indices[k], depth,
                         Trigger_execute_event(acc.triggers[indices[k]], event)),
            event, indices, k + 1, depth)

\* all_actions.append(&mut self.execute_event(..)): r is what the nested
\* call returned, with the system as that call left it
CascadeAppend(acc, r) == [r EXCEPT !.all_actions = acc.all_actions \o r.all_actions]

\* CascadeLoop that never re-injects an action
CascadeLoop_none(acc, i, depth) == acc

\* CascadeLoop with `while i < all_actions.len() - 1`: the last action of
\* the list is not re-injected
RECURSIVE CascadeLoop_skip_last(_, _, _)
CascadeLoop_skip_last(acc, i, depth) ==
    IF i > Len(acc.all_actions) - 1 \/ acc.abort # "" THEN acc
    ELSE CascadeLoop_skip_last(
            CascadeAppend(acc,
                TriggerSystem_execute_event([acc EXCEPT !.all_actions = <<>>],
                                            From(acc.all_actions[i]), depth)),
            i + 1, depth)

\* the `while i < all_actions.len()` loop: the action at i is executed as an
\* event and what that call returns is appended to all_actions
CascadeLoop(acc, i, depth) ==
    IF i > Len(acc.all_actions) \/ acc.abort # "" THEN acc
    ELSE CascadeLoop(
            CascadeAppend(acc,
                TriggerSystem_execute_event([acc EXCEPT !.all_actions = <<>>],
                                            From(acc.all_actions[i]), depth)),
            i + 1, depth)

\* the system at the start of a dispatch pass, the pass noted in the log
StartPass(self, id, depth) ==
    [self EXCEPT !.all_actions = <<>>,
        !.log = Append(@, LogPass(depth, id,
                   {t \in DOMAIN self.subscriptions[id] :
                        self.subscriptions[id][t] > 0}))]

\* TriggerSystem::execute_event; depth is the nesting of the call, 1 for the
\* call made by CompiledTriggers
TriggerSystem_execute_event(self, event, depth) ==
    CascadeLoop(
        DispatchLoop(StartPass(self, identifier(event), depth), event,
                     trigger_indices(self.subscriptions, identifier(event)), 1, depth),
        1, depth + 1)

\* ------------------------------------------------------------------------
\* Construction (Triggers::compile, CompiledTriggers::new)

\* CollectStep without the `if trigger.completed()`: every trigger hands
\* out its actions
CollectStep_always(acc, id, completed, subs, c) ==
    IF c.abort # "" THEN [acc EXCEPT !.abort = c.abort]
    ELSE [acc EXCEPT !.triggers[id] = c.trigger,
                     !.subscriptions = ApplyUpdates(@, MapUpdates(subs, "Subscribe"), id),
                     !.all_actions = @ \o c.actions,
                     !.log = Append(@, LogInitial(id, c.actions))]

\* one step of the flat_map over triggers.iter_mut().enumerate(): the
\* subscriptions of the trigger are collected, and a completed trigger
\* hands out its actions (c is what consume_actions returns)
CollectStep(acc, id, completed, subs, c) ==
    IF ~completed
    THEN [acc EXCEPT !.subscriptions =
                        ApplyUpdates(@, MapUpdates(subs, "Subscribe"), id)]
    ELSE IF c.abort # "" THEN [acc EXCEPT !.abort = c.abort]
    ELSE [acc EXCEPT !.triggers[id] = c.trigger,
                     !.subscriptions = ApplyUpdates(@, MapUpdates(subs, "Subscribe"), id),
                     !.all_actions = @ \o c.actions,
                     !.log = Append(@, LogInitial(id, c.actions))]

RECURSIVE CollectLoop(_, _)
CollectLoop(acc, id) ==
    IF id > Len(acc.triggers) \/ acc.abort # "" THEN acc
    ELSE CollectLoop(
            CollectStep(acc, id, Trigger_completed(acc.triggers[id]),
                        Trigger_subscriptions(acc.triggers[id]),
                        consume_actions(acc.triggers[id])),
            id + 1)

\* CompiledTriggers::new; all_actions of the result is the action queue
CompiledTriggers_new(triggers) ==
    CascadeLoop(
        CollectLoop([triggers |-> triggers,
                     subscriptions |-> EmptySubscriptions(Len(triggers)),
                     all_actions |-> <<>>, log |-> <<>>, abort |-> ""], 1),
        1, 1)

\* the compiled triggers, or the first compile that panicked
CompiledOrAbort(compiled) ==
    IF \E i \in 1..Len(compiled) : compiled[i].abort # ""
    THEN [triggers |-> <<>>, subscriptions |-> EmptySubscriptions(0),
          all_actions |-> <<>>, log |-> <<>>,
          abort |-> compiled[CHOOSE i \in 1..Len(compiled) :
                                /\ compiled[i].abort # ""
                                /\ \A j \in 1..(i - 1) : compiled[j].abort = ""].abort]
    ELSE CompiledTriggers_new([i \in 1..Len(compiled) |-> compiled[i].trigger])

\* Triggers::compile
Triggers_compile(self) ==
    CompiledOrAbort([i \in 1..Len(self) |-> Trigger_compile(self[i])])

\* ------------------------------------------------------------------------
\* The trigger sets the system is constructed from, and the host's events

K0 == KilledMonster(0)

K1 == KilledMonster(1)

F0 == FailedMonster(0)

H2 == HealthChanged(2)

Leaves ==
    {none, never, event_count(K0, 1), event_count(K0, 2), event_count(K1, 1),
     geq(H2), lt(H2)}

NestedConditions ==
    {gt(H2), eq(H2), leq(H2), event_count(K0, 0),
     or(<<and(<<none, none>>), and(<<none, none>>), and(<<none, none>>)>>),
     and(<<>>), or(<<>>), sequence(<<>>), any_n(<<>>, 0), any_n(<<>>, 1),
     any_n(<<event_count(K0, 1)>>, 3),
     and(<<event_count(K0, 1), sequence(<<event_count(K1, 1), event_count(K0, 1)>>)>>),
     or(<<sequence(<<event_count(K0, 1), event_count(K1, 1)>>), event_count(K0, 1)>>),
     and(<<event_count(K0, 1), event_count(K0, 2), event_count(K1, 1)>>),
     any_n(<<event_count(K0, 2), event_count(K1, 1), event_count(F0, 1)>>, 2),
     any_n(<<any_n(<<>>, 1), event_count(K0, 1), event_count(K1, 1)>>, 2),
     or(<<any_n(<<>>, 1), event_count(K0, 2)>>),
     sequence(<<geq(H2), lt(H2), eq(H2)>>),
     sequence(<<or(<<event_count(K0, 2), event_count(K1, 1)>>),
                and(<<event_count(K0, 1), event_count(K1, 1)>>)>>),
     or(<<geq(HealthChanged(3)), eq(HealthChanged(1)), gt(H2)>>),
     and(<<leq(HealthChanged(1)), gt(H2)>>),
     and(<<or(<<none, event_count(K0, 1)>>), event_count(K1, 1)>>),
     geq(HealthChanged(3)),
     or(<<and(<<none, none>>), and(<<none, none>>)>>),
     sequence(<<and(<<>>), event_count(K0, 1)>>),
     sequence(<<event_count(K0, 1), sequence(<<>>)>>),
     sequence(<<event_count(K0, 0)>>),
     sequence(<<event_count(K0, 1), any_n(<<event_count(K1, 1)>>, 0)>>),
     and(<<event_count(K1, 1), sequence(<<event_count(K0, 1), none>>)>>)}

TreeConditions ==
    Leaves \cup NestedConditions
      \cup {sequence(<<a, b>>) : a \in Leaves, b \in Leaves}
      \cup {and(<<a, b>>) : a \in Leaves, b \in Leaves}
      \cup {or(<<a, b>>) : a \in Leaves, b \in Leaves}
      \cup {any_n(<<a, b>>, n) : a \in Leaves, b \in Leaves, n \in {1, 2}}

\* one trigger with a condition tree
TreeTriggers == {<<Trigger_new("tree", c, <<"ActivateQuest">>)>> : c \in TreeConditions}

\* several triggers whose actions are events of other triggers
CascadeTriggers ==
    {<<Trigger_new("a", none, <<"ActivateQuest">>),
       Trigger_new("b", event_count(K0, 2), <<"CompleteQuest">>),
       Trigger_new("c", event_count(K0, 1), <<"FailQuest">>),
       Trigger_new("d", event_count(From("FailQuest"), 1), <<"ActivateQuest">>),
       Trigger_new("e", sequence(<<event_count(F0, 1), event_count(K1, 1)>>),
                   <<"FailQuest">>)>>,
     <<Trigger_new("a", none, <<"ActivateQuest">>),
       Trigger_new("b", event_count(From("ActivateQuest"), 1), <<"CompleteQuest">>)>>,
     <<Trigger_new("a", event_count(K0, 1), <<"ActivateQuest">>),
       Trigger_new("b", event_count(From("ActivateQuest"), 1), <<"CompleteQuest">>),
       Trigger_new("c", event_count(From("CompleteQuest"), 2), <<"FailQuest">>)>>,
     <<Trigger_new("a", event_count(K0, 1), <<"ActivateQuest">>),
       Trigger_new("b", event_count(From("ActivateQuest"), 2), <<"CompleteQuest">>)>>,
     <<Trigger_new("a", event_count(K0, 1), <<"ActivateQuest">>),
       Trigger_new("b", event_count(From("ActivateQuest"), 1), <<"CompleteQuest">>),
       Trigger_new("c", event_count(From("CompleteQuest"), 1), <<"ActivateQuest">>)>>,
     <<Trigger_new("a", event_count(K0, 1), <<"ActivateQuest", "CompleteQuest">>),
       Trigger_new("b", and(<<event_count(From("ActivateQuest"), 1),
                              event_count(From("CompleteQuest"), 1)>>),
                   <<"FailQuest">>),
       Trigger_new("c", event_count(From("CompleteQuest"), 1), <<>>)>>,
     <<Trigger_new("a", or(<<event_count(K0, 1), event_count(K1, 1)>>),
                   <<"ActivateQuest">>),
       Trigger_new("b", event_count(K1, 1), <<"CompleteQuest">>),
       Trigger_new("c", and(<<event_count(K0, 1), event_count(K0, 2)>>),
                   <<"FailQuest">>)>>,
     <<Trigger_new("a", geq(H2), <<"ActivateQuest">>),
       Trigger_new("b", sequence(<<event_count(From("ActivateQuest"), 1),
                                   geq(HealthChanged(3))>>),
                   <<"CompleteQuest">>)>>,
     <<Trigger_new("a", none, <<"ActivateQuest">>),
       Trigger_new("b", event_count(From("ActivateQuest"), 1), <<"CompleteQuest">>),
       Trigger_new("c", event_count(From("CompleteQuest"), 2), <<"FailQuest">>)>>,
     <<Trigger_new("a", event_count(K0, 1), <<"FailQuest">>),
       Trigger_new("b", none, <<"ActivateQuest">>),
       Trigger_new("c", event_count(From("ActivateQuest"), 1), <<"CompleteQuest">>),
       Trigger_new("d", and(<<>>), <<"ActivateQuest">>)>>,
     <<Trigger_new("a", event_count(K0, 1), <<"ActivateQuest">>),
       Trigger_new("b", event_count(K1, 1), <<"FailQuest">>),
       Trigger_new("c", event_count(K0, 1), <<"CompleteQuest">>),
       Trigger_new("d", event_count(From("ActivateQuest"), 1), <<"FailQuest">>)>>,
     <<Trigger_new("a", any_n(<<event_count(K0, 1), event_count(K1, 1),
                                event_count(K1, 2)>>, 1),
                   <<"ActivateQuest">>),
       Trigger_new("b", event_count(K1, 2), <<"CompleteQuest">>)>>,
     <<Trigger_new("a", sequence(<<event_count(K0, 1),
                                   event_count(From("ActivateQuest"), 1)>>),
                   <<"CompleteQuest">>),
       Trigger_new("b", event_count(K0, 1), <<"ActivateQuest">>),
       Trigger_new("c", and(<<event_count(K0, 1), event_count(K0, 2)>>),
                   <<"FailQuest">>)>>,
     <<Trigger_new("a", event_count(K0, 1), <<"ActivateQuest", "CompleteQuest">>),
       Trigger_new("b", event_count(From("ActivateQuest"), 1), <<"FailQuest">>),
       Trigger_new("c", event_count(From("FailQuest"), 1), <<"ActivateQuest">>),
       Trigger_new("d", event_count(From("CompleteQuest"), 1), <<"CompleteQuest">>)>>,
     <<Trigger_new("a", none, <<"ActivateQuest">>),
       Trigger_new("b", event_count(From("ActivateQuest"), 1), <<"CompleteQuest">>),
       Trigger_new("c", event_count(From("CompleteQuest"), 1), <<"ActivateQuest">>)>>}

TriggerSets == TreeTriggers \cup CascadeTriggers

HostEvents ==
    {K0, K1, F0} \cup {HealthChanged(h) : h \in 1..MaxHealth}
      \cup {From(a) : a \in GameActions}

\* ------------------------------------------------------------------------
\* The state: CompiledTriggers (trigger_system and action_queue), what the
\* system was compiled from, and a record of the last call

VARIABLES
    raw,            \* the Vec<Trigger> given to Triggers::new
    triggers,       \* trigger_system.triggers
    subscriptions,  \* trigger_system.subscriptions
    action_queue,   \* action_queue
    aborted,        \* "" or the assertion or unwrap that panicked
    call,           \* the last call that ran the dispatcher: "new" or "execute_event"
    log,            \* the call log of that call
    appended,       \* the actions that call put into the action queue
    consumed,       \* what the last consume_action / consume_all_actions returned
    fired           \* per trigger: how often its actions slot was handed out

vars ==
    <<raw, triggers, subscriptions, action_queue, aborted, call, log, appended,
      consumed, fired>>

FiredIn(l, t) == Cardinality({i \in 1..Len(l) : l[i].trigger = t /\ l[i].fired})

\* the state after Triggers::new(ts).compile(..) has returned r, or panicked
Constructed(ts, r) ==
    /\ raw = ts
    /\ aborted = r.abort
    /\ triggers = r.triggers
    /\ subscriptions = r.subscriptions
    /\ action_queue = r.all_actions
    /\ call = "new"
    /\ log = r.log
    /\ appended = r.all_actions
    /\ consumed = None
    /\ fired = [t \in 1..Len(r.triggers) |-> FiredIn(r.log, t)]

\* a panic unwinds out of the constructor: no system exists
Unwound(r) ==
    IF r.abort = "" THEN r
    ELSE [triggers |-> <<>>, subscriptions |-> EmptySubscriptions(0),
          all_actions |-> <<>>, log |-> <<>>, abort |-> r.abort]

Init == \E ts \in TriggerSets : Constructed(ts, Unwound(Triggers_compile(ts)))

\* self.action_queue.extend(r), r being what the dispatcher returned
Extend(r) ==
    IF r.abort # ""
    THEN /\ aborted' = r.abort
         /\ UNCHANGED <<raw, triggers, subscriptions, action_queue, call, log,
                        appended, consumed, fired>>
    ELSE /\ triggers' = r.triggers
         /\ subscriptions' = r.subscriptions
         /\ action_queue' = action_queue \o r.all_actions
         /\ call' = "execute_event"
         /\ log' = r.log
         /\ appended' = r.all_actions
         /\ fired' = [t \in 1..Len(triggers) |-> fired[t] + FiredIn(r.log, t)]
         /\ UNCHANGED <<raw, aborted, consumed>>

\* the trigger_system of the current state
TriggerSystem ==
    [triggers |-> triggers, subscriptions |-> subscriptions, all_actions |-> <<>>,
     log |-> <<>>, abort |-> ""]

\* CompiledTriggers::execute_event
ExecuteEvent(event) ==
    /\ aborted = ""
    /\ Extend(TriggerSystem_execute_event(TriggerSystem, event, 1))
\* consume_action taking the action queued last (pop_back)
ConsumeAction_pop_back ==
    /\ aborted = ""
    /\ consumed' = (IF action_queue = <<>> THEN None
                    ELSE Some(action_queue[Len(action_queue)]))
    /\ action_queue' = (IF action_queue = <<>> THEN <<>>
                        ELSE SubSeq(action_queue, 1, Len(action_queue) - 1))
    /\ UNCHANGED <<raw, triggers, subscriptions, aborted, call, log, appended, fired>>

\* CompiledTriggers::consume_action
ConsumeAction ==
    /\ aborted = ""
    /\ consumed' = (IF action_queue = <<>> THEN None ELSE Some(Head(action_queue)))
    /\ action_queue' = (IF action_queue = <<>> THEN <<>> ELSE Tail(action_queue))
    /\ UNCHANGED <<raw, triggers, subscriptions, aborted, call, log, appended, fired>>
\* consume_all_actions that also drops the subscription index
ConsumeAllActions_clears_index ==
    /\ aborted = ""
    /\ consumed' = action_queue
    /\ action_queue' = <<>>
    /\ subscriptions' = EmptySubscriptions(Len(triggers))
    /\ UNCHANGED <<raw, triggers, aborted, call, log, appended, fired>>

\* CompiledTriggers::consume_all_actions, the iterator run to its end
ConsumeAllActions ==
    /\ aborted = ""
    /\ consumed' = action_queue
    /\ action_queue' = <<>>
    /\ UNCHANGED <<raw, triggers, subscriptions, aborted, call, log, appended, fired>>
\* progress that counts handles from one past the first trigger
progress_off_by_one(handle) ==
    IF handle + 1 \in 1..Len(triggers) THEN Some(Trigger_progress(triggers[handle + 1]))
    ELSE None

\* CompiledTriggers::progress; None for a handle out of range
progress(handle) ==
    IF handle \in 1..Len(triggers) THEN Some(Trigger_progress(triggers[handle]))
    ELSE None

Next ==
    \/ \E event \in HostEvents : ExecuteEvent(event)
    \/ ConsumeAction
    \/ ConsumeAllActions

Spec == Init /\ [][Next]_vars

\* ------------------------------------------------------------------------
\* Properties

TriggerIndices == 1..Len(triggers)

Count(s, x) == Cardinality({i \in 1..Len(s) : s[i] = x})

Executed(l, t) == \E i \in 1..Len(l) : l[i].op = "exec" /\ l[i].trigger = t

TakeUnwrapAborts ==
    {"execute_event: actions.take().unwrap() on None",
     "consume_actions: actions.take().unwrap() on None"}

\* C1: the actions slot of every trigger is handed out at most once over the
\* life of the system, and no trigger completes a second time (which would
\* fail the unwrap of the emptied slot).
C1_SingleFire ==
    /\ \A t \in 1..Len(fired) : fired[t] <= 1
    /\ aborted \notin TakeUnwrapAborts

\* a trigger that fired in an earlier call, after a later execute_event
C1_Witness ==
    /\ call = "execute_event"
    /\ \E t \in TriggerIndices : fired[t] = 1 /\ FiredIn(log, t) = 0
    /\ \E t \in TriggerIndices : FiredIn(log, t) = 1

\* C2: for every trigger T and identifier id, the multiplicity of (id, T) in
\* the subscription index equals the number of times id occurs in the
\* subscriptions walk of T's condition.
C2_SubscriptionBookkeeping ==
    \A t \in TriggerIndices : \A id \in Identifiers :
        subscriptions[id][t] = Count(Trigger_subscriptions(triggers[t]), id)

\* an execute_event that applied a Subscribe delta and left the trigger
\* with multiplicity two under one identifier
C2_Witness ==
    /\ call = "execute_event"
    /\ \E i \in 1..Len(log) : \E u \in 1..Len(log[i].updates) :
          log[i].updates[u].op = "Subscribe"
    /\ \E t \in TriggerIndices : \E id \in Identifiers :
          subscriptions[id][t] = 2 /\ Executed(log, t)

\* C3: a trigger whose root condition is completed has no entry in the
\* subscription index, and an execute_event that comes after its completion
\* does not execute it.
C3_CompletedNotSubscribed ==
    \A t \in TriggerIndices :
        triggers[t].condition.completed =>
            /\ \A id \in Identifiers : subscriptions[id][t] = 0
            /\ FiredIn(log, t) = 0 => ~Executed(log, t)

ComposedNone ==
    or(<<and(<<none, none>>), and(<<none, none>>), and(<<none, none>>)>>)

\* the trigger (none & none) | (none & none) | (none & none), completed at
\* compile time, after a later execute_event
C3_Witness ==
    /\ call = "execute_event"
    /\ \E t \in TriggerIndices :
          triggers[t].condition.completed /\ raw[t].condition = ComposedNone

\* C4: the actions slot of a trigger is Some exactly when its root condition
\* is not completed.
C4_ActionsSlot ==
    \A t \in TriggerIndices :
        (triggers[t].actions # None) <=> ~triggers[t].condition.completed

\* an execute_event completed a trigger while another one stays uncompleted
C4_Witness ==
    /\ call = "execute_event"
    /\ \E t \in TriggerIndices : FiredIn(log, t) = 1 /\ triggers[t].actions = None
    /\ \E t \in TriggerIndices : triggers[t].actions # None

MonotonicityAbort ==
    "execute_event: assert!(current_progress >= self.current_progress - 1e-6)"

\* C5: the monotonicity assertion of execute_event is never violated,
\* whatever events the host sends (also for a Cmp leaf that receives events
\* whose closeness to the reference goes down).
C5_MonotoneProgress == aborted # MonotonicityAbort

ChildrenOf(c) ==
    IF c.kind = "Sequence" THEN c.conditions
    ELSE IF c.kind \in {"And", "Or", "AnyN"} THEN c.conditions \o c.fulfilled_conditions
    ELSE <<>>

RECURSIVE NodeBounded(_)
NodeBounded(c) ==
    /\ FLeq(F64(0), c.current_progress)
    /\ FLeq(c.current_progress, c.required_progress)
    /\ \A i \in 1..Len(ChildrenOf(c)) : NodeBounded(ChildrenOf(c)[i])

\* C6: at every condition node of every trigger,
\* 0 <= current_progress <= required_progress.
C6_BoundedProgress ==
    \A t \in TriggerIndices : NodeBounded(triggers[t].condition)

StrictlyInside(c) ==
    /\ c.current_progress # F64(0)
    /\ c.current_progress # c.required_progress

\* after an execute_event: a composite root strictly between 0 and its
\* required progress with a Cmp child strictly between, too; and an AnyN
\* root that has not completed
C6_Witness ==
    /\ call = "execute_event"
    /\ \E t \in TriggerIndices :
          LET c == triggers[t].condition
          IN  /\ c.kind \in {"Sequence", "And", "Or", "AnyN"}
              /\ StrictlyInside(c)
              /\ \E i \in 1..Len(ChildrenOf(c)) :
                    /\ ChildrenOf(c)[i].kind \in CmpKinds
                    /\ StrictlyInside(ChildrenOf(c)[i])

\* the exec entries of the dispatch pass noted at log[i]
ExecsOfPass(l, i) ==
    {j \in (i + 1)..Len(l) :
        l[j].op = "exec" /\ \A k \in (i + 1)..j : l[k].op # "pass"}

\* C7: in every dispatch pass, the triggers that execute the event are
\* exactly those with at least one (identifier, trigger) entry in the index
\* when the pass starts.
C7_DispatchCorrectness ==
    \A i \in 1..Len(log) :
        log[i].op = "pass" =>
            /\ {log[j].trigger : j \in ExecsOfPass(log, i)} = log[i].subscribed
            /\ \A j \in ExecsOfPass(log, i) : log[j].identifier = log[i].identifier

\* a pass that dispatches to two triggers and leaves a third one out
C7_Witness ==
    /\ call = "execute_event"
    /\ \E i \in 1..Len(log) :
          /\ log[i].op = "pass"
          /\ Cardinality(log[i].subscribed) >= 2
          /\ log[i].subscribed # TriggerIndices

CompileAbort == "compile: assert!(!condition.completed())"

\* C8: for a trigger set that compiles, no assertion or unwrap fails in
\* execute_event.
C8_NoAbort == aborted \in {"", CompileAbort}

RECURSIVE ActionsOf(_)
ActionsOf(l) == IF l = <<>> THEN <<>> ELSE l[1].actions \o ActionsOf(Tail(l))

\* C9: every action x a trigger emits during the call is executed as the
\* event From(x) later in the same call, so a trigger waiting for one
\* From(x) has fired when the call returns; a trigger fired by a synthetic
\* event fires after the emission of the action it reacts to, and the
\* actions are queued in the order of emission.
C9_CascadeInSameCall ==
    /\ appended = ActionsOf(log)
    /\ \A j \in 1..Len(log) : \A a \in 1..Len(log[j].actions) :
          /\ \E k \in (j + 1)..Len(log) :
                /\ log[k].op = "pass"
                /\ log[k].identifier = identifier(From(log[j].actions[a]))
          /\ \A t \in TriggerIndices :
                raw[t].condition = event_count(From(log[j].actions[a]), 1)
                    => fired[t] = 1
    /\ \A m \in 1..Len(log) :
          log[m].op = "exec" /\ log[m].fired /\ (log[m].depth >= 2 \/ call = "new") =>
              \E j \in 1..(m - 1) : \E a \in 1..Len(log[j].actions) :
                  identifier(From(log[j].actions[a])) = log[m].identifier

\* an execute_event in which a trigger fired on a synthetic event and put
\* its actions behind those of the trigger that caused it
C9_Witness ==
    /\ call = "execute_event"
    /\ Len(appended) >= 2
    /\ \E m \in 1..Len(log) : log[m].op = "exec" /\ log[m].fired /\ log[m].depth >= 2

\* the passes of synthetic events in the log of the last call
SyntheticPasses(id) ==
    {k \in 1..Len(log) :
        /\ log[k].op = "pass"
        /\ log[k].identifier = id
        /\ call = "execute_event" => log[k].depth >= 2}

\* every appended action has been executed as a synthetic event in the call
AppendedExecuted ==
    \A i \in 1..Len(appended) :
        Cardinality(SyntheticPasses(identifier(From(appended[i]))))
            >= Count(appended, appended[i])

\* the host executes the given actions as events, one call each
RECURSIVE Reinject(_, _)
Reinject(acc, actions) ==
    IF actions = <<>> \/ acc.abort # "" THEN acc
    ELSE Reinject(TriggerSystem_execute_event(acc, From(actions[1]), 1), Tail(actions))

NoneFired(l) == \A i \in 1..Len(l) : ~l[i].fired

\* C10 as stated: when the call returns, every action it appended has been
\* executed as a synthetic event, and executing the appended actions as
\* events once more makes no trigger fire.
C10_CascadeFixpoint ==
    /\ AppendedExecuted
    /\ NoneFired(Reinject(TriggerSystem, appended).log)

\* C10 as amended: when the call returns, every action it appended has been
\* executed as a synthetic event within the call.
C10_AppendedExecuted == AppendedExecuted /\ appended = ActionsOf(log)

\* an execute_event whose cascade appended the actions of two triggers
C10_Witness ==
    /\ call = "execute_event"
    /\ Len(appended) >= 2
    /\ \E m \in 1..Len(log) : log[m].depth >= 2 /\ log[m].actions # <<>>

\* the trigger's root was written as a condition of this kind
RootIs(t, kind) == raw[t].condition.kind = kind

SomeChildCompleted(c) ==
    \E i \in 1..Len(ChildrenOf(c)) : ChildrenOf(c)[i].completed

\* C11: a trigger whose root is an Or with a fulfilled child, be it
\* fulfilled at compile time (Or[None, EventCount(A, 1)]) or by an event,
\* is completed and has handed out its actions.
C11_OrAnyChild ==
    \A t \in TriggerIndices :
        RootIs(t, "Or") /\ SomeChildCompleted(triggers[t].condition)
            => triggers[t].condition.completed /\ fired[t] = 1

\* the reference semantics on a condition tree: And needs all children,
\* Or any child, AnyN at least n children; everything else is fulfilled
\* when it is completed
RECURSIVE Fulfilled(_)
Fulfilled(c) ==
    LET children == ChildrenOf(c)
        fulfilled == {i \in 1..Len(children) : Fulfilled(children[i])}
    IN  CASE c.kind = "And" -> Cardinality(fulfilled) = Len(children)
          [] c.kind = "Or" -> fulfilled # {}
          [] c.kind = "AnyN" -> Cardinality(fulfilled) >= c.n
          [] OTHER -> c.completed

\* a child of the root, as written, is completed when it is compiled
TrivialChild(t) ==
    \E i \in 1..Len(raw[t].condition.conditions) :
        compile(raw[t].condition.conditions[i]).condition.completed

\* C12: a trigger whose root is an And, Or or AnyN with trivially completed
\* children has fired exactly when the reference semantics, with those
\* children fulfilled from the start, is fulfilled.
C12_PartitionPreservesBehaviour ==
    \A t \in TriggerIndices :
        raw[t].condition.kind \in {"And", "Or", "AnyN"} /\ TrivialChild(t)
            => (fired[t] = 1 <=> Fulfilled(triggers[t].condition))

\* C13: a trigger with an empty Or is not completed and has not fired; a
\* trigger with an empty And is completed.
C13_EmptyOrNeverFires ==
    \A t \in TriggerIndices :
        /\ raw[t].condition = or(<<>>)
              => ~triggers[t].condition.completed /\ fired[t] = 0
        /\ raw[t].condition = and(<<>>) => triggers[t].condition.completed

Min(a, b) == IF a < b THEN a ELSE b

\* the dispatch passes of events with this identifier among the first j
\* entries of a call log
PassesUpTo(l, j, id) ==
    Cardinality({k \in 1..j : l[k].op = "pass" /\ l[k].identifier = id})

\* a step that is an execute_event which returned
IsExecuteStep ==
    /\ aborted' = ""
    /\ consumed' = consumed
    /\ action_queue' = action_queue \o appended'

ECRoot(t) == RootIs(t, "EventCount") /\ raw[t].condition.required >= 1

C14_State ==
    \A t \in TriggerIndices :
        ECRoot(t) =>
            LET c == triggers[t].condition
                id == identifier(raw[t].condition.event)
                required == raw[t].condition.required
            IN  /\ c.count <= required
                /\ c.completed <=> c.count = required
                /\ fired[t] = (IF c.count = required THEN 1 ELSE 0)
                /\ progress(t) = Some(<<F64(c.count), F64(required)>>)
                /\ subscriptions[id][t] = (IF c.count = required THEN 0 ELSE 1)
                /\ call = "new" => c.count = Min(required, PassesUpTo(log, Len(log), id))
                /\ \A j \in 1..Len(log) :
                      log[j].op = "exec" /\ log[j].trigger = t =>
                          /\ log[j].identifier = id
                          /\ log[j].updates =
                                (IF log[j].fired THEN <<Unsubscribe(id)>> ELSE <<>>)
                          /\ log[j].actions =
                                (IF log[j].fired THEN raw[t].actions ELSE <<>>)

C14_Step ==
    IsExecuteStep =>
        \A t \in TriggerIndices :
            ECRoot(t) =>
                LET id == identifier(raw[t].condition.event)
                    required == raw[t].condition.required
                    count == triggers[t].condition.count
                IN  /\ triggers'[t].condition.count =
                          Min(required, count + PassesUpTo(log', Len(log'), id))
                    /\ \A j \in 1..Len(log') :
                          log'[j].op = "exec" /\ log'[j].trigger = t /\ log'[j].fired
                              => count + PassesUpTo(log', j, id) = required

\* C14: a trigger event_count(e, required), required >= 1, counts the
\* executed events with the identifier of e and no others, fires in the
\* dispatch pass of the required-th of them, shows progress (count,
\* required), and on completion emits the one delta Unsubscribe(identifier)
\* together with its actions.
C14_EventCount == []C14_State /\ [][C14_Step]_vars

\* an execute_event in which a trigger waiting for two events fired
C14_Witness ==
    /\ call = "execute_event"
    /\ \E t \in TriggerIndices :
          ECRoot(t) /\ raw[t].condition.required = 2 /\ FiredIn(log, t) = 1

Range(s) == {s[i] : i \in 1..Len(s)}

\* the exec entries of trigger t in a call log
ExecsOf(l, t) == {j \in 1..Len(l) : l[j].op = "exec" /\ l[j].trigger = t}

\* the identifiers the child at the cursor subscribes to
CursorSubscriptions(c) ==
    IF c.current_index <= Len(c.conditions)
    THEN Condition_subscriptions(c.conditions[c.current_index])
    ELSE <<>>

C15_State ==
    \A t \in TriggerIndices :
        RootIs(t, "Sequence") =>
            LET c == triggers[t].condition
            IN  /\ \A i \in 1..Len(c.conditions) :
                      /\ i < c.current_index => c.conditions[i].completed
                      /\ i = c.current_index => ~c.conditions[i].completed
                      /\ i > c.current_index =>
                            c.conditions[i] = compile(raw[t].condition.conditions[i]).condition
                /\ fired[t] = (IF c.current_index > Len(c.conditions) THEN 1 ELSE 0)
                /\ c.completed <=> c.current_index > Len(c.conditions)
                /\ \A id \in Identifiers :
                      subscriptions[id][t] = Count(CursorSubscriptions(c), id)

C15_Step ==
    IsExecuteStep =>
        \A t \in TriggerIndices :
            RootIs(t, "Sequence") =>
                LET c == triggers[t].condition
                    execs == ExecsOf(log', t)
                IN  /\ triggers'[t].condition.current_index >= c.current_index
                    /\ triggers'[t].condition.current_index - c.current_index
                          <= Cardinality(execs)
                    /\ execs = {} => triggers'[t] = triggers[t]
                    /\ \A j \in execs :
                          (\A k \in execs : j <= k)
                              => log'[j].identifier \in Range(CursorSubscriptions(c))

\* C15: in a trigger sequence([c0, ..., ck]) the children before the cursor
\* are fulfilled, the child at the cursor is not, the children behind it
\* are as compiled; the trigger has fired exactly when the cursor is past
\* ck; the index holds exactly the subscriptions of the child at the
\* cursor; the cursor moves forward by at most one child per executed
\* event, and only events the child at the cursor subscribes to reach the
\* trigger.
C15_SequenceOrder == []C15_State /\ [][C15_Step]_vars

\* an execute_event of an event that only the second child of a sequence
\* names, with the cursor on the first child: nothing was dispatched
C15_Witness ==
    /\ call = "execute_event"
    /\ \E t \in TriggerIndices :
          /\ RootIs(t, "Sequence")
          /\ Len(triggers[t].condition.conditions) >= 2
          /\ triggers[t].condition.current_index = 1
          /\ log[1].identifier \in Range(Condition_subscriptions(triggers[t].condition.conditions[2]))
          /\ log[1].identifier \notin Range(CursorSubscriptions(triggers[t].condition))
          /\ ExecsOf(log, t) = {}

\* the children of a composite that are completed
CompletedChildren(c) ==
    {i \in 1..Len(ChildrenOf(c)) : ChildrenOf(c)[i].completed}

\* no execute_event on a system of this one trigger has panicked
Survives(t) == Len(triggers) = 1 => aborted = ""

\* C16: a trigger and([c1, ..., ck]) has fired exactly when all its
\* children are fulfilled, and it gets there whatever the order of the
\* events: no event executed on it ends the program.
C16_AndAllChildren ==
    \A t \in TriggerIndices :
        RootIs(t, "And") =>
            LET c == triggers[t].condition
            IN  /\ fired[t] = 1 <=> Cardinality(CompletedChildren(c)) = Len(ChildrenOf(c))
                /\ c.completed <=> fired[t] = 1
                /\ Survives(t)

\* C17: a trigger any_n(children, n) is completed and has fired exactly
\* when at least n children are fulfilled, never with n greater than the
\* number of children, and the event that fulfils the n-th child is
\* executed to the end.
C17_AnyNAtLeastN ==
    \A t \in TriggerIndices :
        RootIs(t, "AnyN") =>
            LET c == triggers[t].condition
            IN  /\ fired[t] = 1 <=> Cardinality(CompletedChildren(c)) >= c.n
                /\ c.completed <=> fired[t] = 1
                /\ c.n > Len(raw[t].condition.conditions) => fired[t] = 0
                /\ Survives(t)

\* C18: a trigger with a comparison leaf has fired exactly when the leaf
\* is fulfilled, and events that do not satisfy the operator leave it able
\* to execute later events: none of them ends the program.
C18_CmpFirstSatisfying ==
    \A t \in TriggerIndices :
        raw[t].condition.kind \in CmpKinds =>
            LET c == triggers[t].condition
            IN  /\ fired[t] = 1 <=> c.fulfilled
                /\ c.completed <=> c.fulfilled
                /\ subscriptions[identifier(c.reference_event)][t]
                      = (IF c.fulfilled THEN 0 ELSE 1)
                /\ Survives(t)

\* how many deltas of this kind for id the executions of trigger t emitted
\* in a call log
DeltaCount(l, t, op, id) ==
    LET deltas == ActionsOf([j \in 1..Len(l) |->
                     [actions |-> IF l[j].op = "exec" /\ l[j].trigger = t
                                  THEN l[j].updates ELSE <<>>]])
    IN  Count(deltas, [op |-> op, identifier |-> id])

\* the unfulfilled leaves of trigger t that name id and are listening
Listening(trigger, id) == Count(Trigger_subscriptions(trigger), id)

C19_State ==
    \A t \in TriggerIndices : \A id \in Identifiers :
        Listening(triggers[t], id) >= 1 => subscriptions[id][t] >= 1

C19_Step ==
    IsExecuteStep =>
        \A t \in TriggerIndices : \A id \in Identifiers :
            LET removed == DeltaCount(log', t, "Unsubscribe", id)
                added == DeltaCount(log', t, "Subscribe", id)
            IN  /\ subscriptions'[id][t] = subscriptions[id][t] - removed + added
                /\ Listening(triggers[t], id) - Listening(triggers'[t], id)
                      = removed - added
                /\ /\ Listening(triggers[t], id) >= 1
                   /\ log' # <<>>
                   /\ Head(log').op = "pass"
                   /\ Head(log').identifier = id
                   => t \in Head(log').subscribed /\ ExecsOf(log', t) # {}

\* C19: every Unsubscribe(identifier) a trigger emits removes exactly one
\* (identifier, trigger) entry and stands for one leaf that stopped
\* listening; while a leaf naming the identifier is unfulfilled the trigger
\* stays in the index and the next event with that identifier is
\* dispatched to it.
C19_MultiplicityPreserved == []C19_State /\ [][C19_Step]_vars

\* an execute_event that fulfilled one of two leaves naming the same
\* identifier: one entry is gone, one is left, the trigger has not fired
C19_Witness ==
    /\ call = "execute_event"
    /\ \E t \in TriggerIndices : \E id \in Identifiers :
          /\ RootIs(t, "And")
          /\ DeltaCount(log, t, "Unsubscribe", id) = 1
          /\ subscriptions[id][t] = 1
          /\ Listening(triggers[t], id) = 1
          /\ fired[t] = 0

\* the trigger as written has a root that is completed when compiled
CompletedAtCompile(t) == compile(raw[t].condition).condition.completed

\* the actions of the triggers completed at compile time, in insertion order
InitialActions ==
    ActionsOf([t \in 1..Len(raw) |->
                 [actions |-> IF CompletedAtCompile(t) THEN raw[t].actions ELSE <<>>]])

IsSuffix(s, whole) ==
    \E k \in 0..Len(whole) : s = SubSeq(whole, k + 1, Len(whole))

\* C20: after CompiledTriggers::new the queue starts with the actions of
\* the triggers completed at compile time, in insertion order; every
\* action behind them was emitted by a trigger that fired on the synthetic
\* event of an action queued before; a trigger that is neither completed at
\* compile time nor fired by the cascade has put nothing into the queue and
\* still holds its actions.
C20_Construction ==
    call = "new" /\ triggers # <<>> =>
        /\ Len(appended) >= Len(InitialActions)
        /\ SubSeq(appended, 1, Len(InitialActions)) = InitialActions
        /\ appended = ActionsOf(log)
        /\ IsSuffix(action_queue, appended)
        /\ \A j \in 1..Len(log) :
              /\ log[j].op = "initial" =>
                    /\ CompletedAtCompile(log[j].trigger)
                    /\ \A i \in 1..(j - 1) :
                          log[i].op = "initial" /\ log[i].trigger < log[j].trigger
              /\ log[j].op # "initial" /\ log[j].actions # <<>> =>
                    /\ log[j].op = "exec" /\ log[j].fired
                    /\ \E i \in 1..(j - 1) : \E a \in 1..Len(log[i].actions) :
                          identifier(From(log[i].actions[a])) = log[j].identifier
        /\ \A t \in TriggerIndices :
              /\ CompletedAtCompile(t) =>
                    \E j \in 1..Len(log) : log[j].op = "initial" /\ log[j].trigger = t
              /\ ~CompletedAtCompile(t) /\ fired[t] = 0 =>
                    /\ \A j \in 1..Len(log) : log[j].trigger = t => log[j].actions = <<>>
                    /\ triggers[t].actions = Some(raw[t].actions)

\* a construction with a trigger completed at compile time, a trigger the
\* cascade fired behind it, and a trigger that did not fire
C20_Witness ==
    /\ call = "new"
    /\ InitialActions # <<>>
    /\ Len(appended) > Len(InitialActions)
    /\ \E t \in TriggerIndices : fired[t] = 0 /\ Len(raw[t].actions) >= 1
    /\ \E j \in 1..Len(log) : log[j].op = "exec" /\ log[j].fired

\* the actions the triggers of the dispatch pass at log[i] emitted directly
DirectActions(l, i) ==
    ActionsOf(SubSeq(l, i + 1, i + Cardinality(ExecsOfPass(l, i))))

\* C21: in every dispatch pass the subscribed triggers are executed in
\* ascending trigger-index order, and for the event the host executed the
\* actions they emit directly are appended in that order, ahead of every
\* action the cascade produces.
C21_AscendingOrder ==
    /\ \A i \in 1..Len(log) :
          log[i].op = "pass" =>
              /\ ExecsOfPass(log, i) = (i + 1)..(i + Cardinality(ExecsOfPass(log, i)))
              /\ \A j, k \in ExecsOfPass(log, i) :
                    j < k => log[j].trigger < log[k].trigger
    /\ call = "execute_event" /\ log # <<>> =>
          /\ Len(appended) >= Len(DirectActions(log, 1))
          /\ SubSeq(appended, 1, Len(DirectActions(log, 1))) = DirectActions(log, 1)
          /\ \A j \in 1..Len(log) :
                log[j].actions # <<>> /\ j \notin ExecsOfPass(log, 1) => log[j].depth >= 2

\* an execute_event in which two triggers fired on the host's event and a
\* third one on the synthetic event of the first one's action
C21_Witness ==
    /\ call = "execute_event"
    /\ Cardinality({j \in ExecsOfPass(log, 1) : log[j].actions # <<>>}) >= 2
    /\ Len(appended) > Len(DirectActions(log, 1))

\* execute_event puts what it produced behind the pending actions
Enqueues ==
    /\ aborted' = ""
    /\ consumed' = consumed
    /\ action_queue' = action_queue \o appended'

\* consume_action hands out the oldest pending action and removes it
Dequeues ==
    /\ aborted' = ""
    /\ action_queue # <<>>
    /\ consumed' = Some(Head(action_queue))
    /\ action_queue' = Tail(action_queue)

\* consume_action on the empty queue
DequeuesNothing ==
    /\ aborted' = ""
    /\ action_queue = <<>>
    /\ consumed' = None
    /\ action_queue' = <<>>

\* consume_all_actions hands out every pending action, oldest first
Drains ==
    /\ aborted' = ""
    /\ consumed' = action_queue
    /\ action_queue' = <<>>

\* a panicking call leaves the queue as it was
AbortsCall ==
    /\ aborted' # ""
    /\ action_queue' = action_queue
    /\ consumed' = consumed

\* C22: the action queue is first-in first-out: execute_event appends behind
\* the pending actions, consume_action returns the oldest pending action and
\* removes it, and it returns None exactly when the queue is empty.
C22_Fifo ==
    [][Enqueues \/ Dequeues \/ DequeuesNothing \/ Drains \/ AbortsCall]_vars

\* an execute_event queued two actions or more and consume_action has
\* returned the first of them, the others still pending
C22_Witness ==
    /\ call = "execute_event"
    /\ Len(appended) >= 2
    /\ consumed = Some(appended[1])
    /\ action_queue = Tail(appended)

\* the index has no entry for the identifier
NoIndexEntry(id) == \A t \in 1..Len(triggers) : subscriptions[id][t] = 0

\* what execute_event(e) returns in the current state
Outcome(e) == TriggerSystem_execute_event(TriggerSystem, e, 1)

\* C23: executing an event whose identifier has no entry in the
\* subscription index is a no-op: no trigger is executed, the call returns
\* normally, and every trigger's condition state, the index and the action
\* queue stay as they were.
C23_UnsubscribedNoOp ==
    aborted = "" =>
        \A e \in HostEvents :
            NoIndexEntry(identifier(e)) =>
                /\ Outcome(e).abort = ""
                /\ Outcome(e).triggers = triggers
                /\ Outcome(e).subscriptions = subscriptions
                /\ Outcome(e).all_actions = <<>>
                /\ Outcome(e).log = <<LogPass(1, identifier(e), {})>>

\* execute_event has returned from an event nothing was subscribed to,
\* while some trigger is still waiting for other events
C23_Witness ==
    /\ call = "execute_event"
    /\ aborted = ""
    /\ Len(log) = 1
    /\ log[1].subscribed = {}
    /\ appended = <<>>
    /\ \E t \in 1..Len(triggers) : ~Trigger_completed(triggers[t])

\* C24: progress(handle) is None exactly for a handle that is not below the
\* number of triggers given at construction, at every point of the system's
\* life (the trigger vector keeps its length and order); for any other handle
\* it is the pair (current_progress, required_progress) of that trigger's
\* root condition.
C24_ProgressHandles ==
    triggers # <<>> =>
        /\ Len(triggers) = Len(raw)
        /\ \A handle \in 1..(Len(raw) + 2) :
              /\ progress(handle) = None <=> handle > Len(raw)
              /\ handle <= Len(raw) =>
                    /\ triggers[handle].id_str = raw[handle].id_str
                    /\ progress(handle) =
                          Some(<<triggers[handle].condition.current_progress,
                                 compile(raw[handle].condition).condition.required_progress>>)

\* a system of two triggers or more after an event that moved the progress
\* of a trigger other than the first
C24_Witness ==
    /\ call = "execute_event"
    /\ Len(triggers) >= 2
    /\ \E handle \in 2..Len(triggers) :
          /\ progress(handle) # Some(Trigger_progress(Trigger_compile(raw[handle]).trigger))
          /\ progress(handle) # progress(1)

\* current_progress has reached required_progress
ProgressReached(t) ==
    progress(t) = Some(<<triggers[t].condition.required_progress,
                         triggers[t].condition.required_progress>>)

\* C25: a trigger has fired exactly when its current_progress has reached its
\* required_progress: progress(handle) = (c, r) with c = r exactly for the
\* triggers whose root condition is completed.
C25_FiredIffProgressReached ==
    \A t \in 1..Len(triggers) :
        ProgressReached(t) <=> Trigger_completed(triggers[t])

AlreadyCompletedAbort == "execute_event: assert!(!self.completed)"

\* C26: executing an event directly against a compiled trigger whose
\* condition is already completed, at compile time as for none() and
\* (none & none) | (none & none) or by earlier events, aborts with the
\* assertion failure of the execute_event wrapper, whatever the event.
C26_CompletedTriggerAborts ==
    \A t \in 1..Len(triggers) :
        Trigger_completed(triggers[t]) =>
            \A e \in HostEvents :
                Trigger_execute_event(triggers[t], e).abort = AlreadyCompletedAbort

\* the compiled triggers of the two tests: none(), and
\* (none & none) | (none & none), each executed with KilledMonster(0)
C26_Witness ==
    /\ call = "new"
    /\ Len(triggers) = 1
    /\ raw[1].condition \in {none, or(<<and(<<none, none>>), and(<<none, none>>)>>)}
    /\ Trigger_completed(triggers[1])
    /\ Trigger_execute_event(triggers[1], K0).abort = AlreadyCompletedAbort

\* the uncompiled condition is one of those the compile step turns into an
\* already completed node
RECURSIVE CompilesCompleted(_)
CompilesCompleted(c) ==
    \/ c.kind = "None"
    \/ c.kind = "EventCount" /\ c.required = 0
    \/ c.kind = "AnyN" /\ c.n = 0
    \/ c.kind \in {"And", "Sequence"} /\ c.conditions = <<>>
    \/ c.kind = "And" /\ \A i \in 1..Len(c.conditions) : CompilesCompleted(c.conditions[i])

\* somewhere in the tree a Sequence has such a child
RECURSIVE SequenceWithCompletedChild(_)
SequenceWithCompletedChild(c) ==
    /\ c.kind \in {"Sequence", "And", "Or", "AnyN"}
    /\ \E i \in 1..Len(c.conditions) :
          \/ c.kind = "Sequence" /\ CompilesCompleted(c.conditions[i])
          \/ SequenceWithCompletedChild(c.conditions[i])

\* C27: compiling a Sequence one of whose children compiles to an already
\* completed condition (None, an empty And, an empty Sequence, an EventCount
\* with required 0, an AnyN with n = 0) fails the assertion of the compile
\* step, and no compiled trigger system is produced.
C27_SequenceRejectsCompletedChild ==
    (\E t \in 1..Len(raw) : SequenceWithCompletedChild(raw[t].condition)) =>
        /\ aborted = CompileAbort
        /\ call = "new"
        /\ triggers = <<>>
        /\ action_queue = <<>>

\* the rejected construction of sequence([event_count(K0, 1), none]) nested
\* in an And
C27_Witness ==
    /\ aborted = CompileAbort
    /\ triggers = <<>>
    /\ raw[1].condition =
          and(<<event_count(K1, 1), sequence(<<event_count(K0, 1), none>>)>>)

\* ------------------------------------------------------------------------
\* Operator composition (impl BitAnd, impl BitOr in constructors.rs).  The
\* operators work on condition values that carry both child lists and the
\* fields completed, required_progress and current_progress, the shape of a
\* compiled node.

\* chains of `&` or `|` have at most MaxOperands operands
MaxOperands == 4

\* the value a constructor function returns for a condition without
\* operator children
TriggerCondition_new(c) == compile(c).condition

\* the `match (self.kind, rhs.kind)` of bitand (kind "And") and of bitor
\* (kind "Or"), with the three fields computed before it
Operator_match(kind, self, rhs, completed, required_progress, current_progress) ==
    LET node(conditions, fulfilled_conditions) ==
            [kind |-> kind, conditions |-> conditions,
             fulfilled_conditions |-> fulfilled_conditions,
             required_progress |-> required_progress,
             current_progress |-> current_progress,
             completed |-> completed]
    IN
      IF self.kind = kind /\ rhs.kind = kind
      THEN node(self.conditions \o rhs.conditions,
                self.fulfilled_conditions \o rhs.fulfilled_conditions)
      ELSE IF self.kind = kind
      THEN IF rhs.completed
           THEN node(self.conditions, Append(self.fulfilled_conditions, rhs))
           ELSE node(Append(self.conditions, rhs), self.fulfilled_conditions)
      ELSE IF rhs.kind = kind
      THEN IF self.completed
           THEN node(rhs.conditions, Append(rhs.fulfilled_conditions, self))
           ELSE node(Append(rhs.conditions, self), rhs.fulfilled_conditions)
      ELSE node((IF self.completed THEN <<>> ELSE <<self>>)
                    \o (IF rhs.completed THEN <<>> ELSE <<rhs>>),
                (IF self.completed THEN <<self>> ELSE <<>>)
                    \o (IF rhs.completed THEN <<rhs>> ELSE <<>>))

\* bitand that always wraps its two operands in a new And
bitand_nested(self, rhs) ==
    Operator_match("And", [self EXCEPT !.kind = "Operand"], [rhs EXCEPT !.kind = "Operand"],
                   self.completed /\ rhs.completed,
                   FAdd(self.required_progress, rhs.required_progress),
                   FAdd(self.current_progress, rhs.current_progress))

\* impl BitAnd for TriggerCondition
bitand(self, rhs) ==
    Operator_match("And", self, rhs,
                   self.completed /\ rhs.completed,
                   FAdd(self.required_progress, rhs.required_progress),
                   FAdd(self.current_progress, rhs.current_progress))

\* current_progress / required_progress, 0 for required_progress 0
RelativeProgress(self) ==
    IF self.required_progress = F64(0) THEN F64(0)
    ELSE FDiv(self.current_progress, self.required_progress)

\* impl BitOr for TriggerCondition
bitor(self, rhs) ==
    Operator_match("Or", self, rhs,
                   self.completed \/ rhs.completed,
                   FMin(self.required_progress, rhs.required_progress),
                   FMul(FMax(RelativeProgress(self), RelativeProgress(rhs)),
                        FMin(self.required_progress, rhs.required_progress)))

\* the conditions the operators are applied to
Operands ==
    {none, never, event_count(K0, 1), event_count(K1, 0), geq(H2),
     any_n(<<event_count(K0, 1)>>, 1)}

\* one operand, or two operands already joined by the operator
OperandChains == {<<a>> : a \in Operands} \cup {<<a, b>> : a \in Operands, b \in Operands}

\* the expression built so far is the condition of the one trigger in
\* `triggers`; `raw` lists its operands from left to right
Expression(value) == <<CompiledTrigger_new("", value, <<>>)>>

InitOps ==
    \E a \in Operands :
        /\ raw = <<Trigger_new("", a, <<>>)>>
        /\ triggers = Expression(TriggerCondition_new(a))
        /\ call = "operand"
        /\ subscriptions = EmptySubscriptions(0)
        /\ action_queue = <<>>
        /\ aborted = ""
        /\ log = <<>>
        /\ appended = <<>>
        /\ consumed = None
        /\ fired = <<>>

\* expression & rhs, rhs being an operand or the And of two operands
BitAnd(rs) ==
    /\ call \in {"operand", "bitand"}
    /\ Len(raw) + Len(rs) <= MaxOperands
    /\ Len(rs) = 2 => Len(raw) >= 2
    /\ triggers' = Expression(
           bitand(triggers[1].condition,
                  IF Len(rs) = 1 THEN TriggerCondition_new(rs[1])
                  ELSE bitand(TriggerCondition_new(rs[1]), TriggerCondition_new(rs[2]))))
    /\ raw' = raw \o [i \in 1..Len(rs) |-> Trigger_new("", rs[i], <<>>)]
    /\ call' = "bitand"
    /\ UNCHANGED <<subscriptions, action_queue, aborted, log, appended, consumed, fired>>

\* expression | rhs, rhs being an operand or the Or of two operands
BitOr(rs) ==
    /\ call \in {"operand", "bitor"}
    /\ Len(raw) + Len(rs) <= MaxOperands
    /\ Len(rs) = 2 => Len(raw) >= 2
    /\ triggers' = Expression(
           bitor(triggers[1].condition,
                 IF Len(rs) = 1 THEN TriggerCondition_new(rs[1])
                 ELSE bitor(TriggerCondition_new(rs[1]), TriggerCondition_new(rs[2]))))
    /\ raw' = raw \o [i \in 1..Len(rs) |-> Trigger_new("", rs[i], <<>>)]
    /\ call' = "bitor"
    /\ UNCHANGED <<subscriptions, action_queue, aborted, log, appended, consumed, fired>>

NextOps ==
    \/ \E rs \in OperandChains : BitAnd(rs)
    \/ \E rs \in OperandChains : BitOr(rs)

SpecOps == InitOps /\ [][NextOps]_vars

\* the operand values of the expression, left to right
OperandValues == [i \in 1..Len(raw) |-> TriggerCondition_new(raw[i].condition)]

CmpUnwrapAborts ==
    {"execute_cmp_event: partial_cmp(..).unwrap() on None",
     "execute_cmp_event: partial_cmp_progress(..).unwrap() on None"}

\* C29: dispatch is leaf-level: when an event is executed on a subscribed
\* trigger, only the leaves whose identifier is the event's are evaluated; a
\* comparison leaf that is an active child of an And, Or or AnyN is never
\* compared with an event of another identifier.
C29_LeafLevelDispatch ==
    aborted = "" =>
        \A t \in 1..Len(triggers) : \A e \in HostEvents :
            subscriptions[identifier(e)][t] > 0 =>
                Trigger_execute_event(triggers[t], e).abort \notin CmpUnwrapAborts

\* every node of the tree stores the completed flag its completion rule gives
RECURSIVE FlagsMatchRule(_)
FlagsMatchRule(c) ==
    /\ c.completed = Kind_completed(c)
    /\ \A i \in 1..Len(ChildrenOf(c)) : FlagsMatchRule(ChildrenOf(c)[i])

\* C30: at every node of every compiled tree the stored completed flag
\* equals the completion rule evaluated on the node's state (EventCount:
\* count >= required; Cmp: fulfilled; Sequence: cursor past the last child;
\* And, Or: active list empty; AnyN: at least n fulfilled children).
C30_CompletedFlagMatchesRule ==
    \A t \in 1..Len(triggers) : FlagsMatchRule(triggers[t].condition)

\* trigger t, whose root is an Or or an AnyN, fires in the step
OrAnyNCompletes(t) ==
    /\ RootIs(t, "Or") \/ RootIs(t, "AnyN")
    /\ fired'[t] = fired[t] + 1

C31_Step ==
    IsExecuteStep /\ log' # <<>> =>
        \A t \in TriggerIndices :
            OrAnyNCompletes(t) =>
                /\ \A id \in Identifiers :
                      /\ DeltaCount(log', t, "Unsubscribe", id)
                            = Listening(triggers[t], id) + DeltaCount(log', t, "Subscribe", id)
                      /\ subscriptions'[id][t] = 0
                /\ \A u \in TriggerIndices \ {t} : \A id \in Identifiers :
                      /\ ExecsOf(log', u) = {} =>
                            subscriptions'[id][u] = subscriptions[id][u]
                      /\ subscriptions'[id][u] =
                            subscriptions[id][u] - DeltaCount(log', u, "Unsubscribe", id)
                                + DeltaCount(log', u, "Subscribe", id)
                      /\ Listening(triggers'[u], id) >= 1 =>
                            /\ subscriptions'[id][u] >= 1
                            /\ u \in Range(trigger_indices(subscriptions', id))

\* C31: when the Or or AnyN of trigger T completes, its Unsubscribe deltas
\* remove only entries of T, one for each leaf of T that was still
\* listening; the entries of every other trigger change by that trigger's
\* own deltas only (not at all if it did not execute), and a trigger still
\* listening for an identifier T unsubscribed from stays in the index and is
\* dispatched the next event with it.
C31_UnsubscribeLocal == [][C31_Step]_vars

\* an Or or AnyN trigger fired and unsubscribed a remaining child from an
\* identifier another trigger, not executed in the call, still listens for
C31_Witness ==
    /\ call = "execute_event"
    /\ \E t \in TriggerIndices : \E u \in TriggerIndices \ {t} : \E id \in Identifiers :
          /\ RootIs(t, "Or") \/ RootIs(t, "AnyN")
          /\ FiredIn(log, t) = 1
          /\ id # log[1].identifier
          /\ DeltaCount(log, t, "Unsubscribe", id) >= 1
          /\ ExecsOf(log, u) = {}
          /\ subscriptions[id][u] >= 1

\* the index entry of (id, t) after the deltas logged in l were applied to
\* the index subs
EntryAfter(subs, l, t, id) ==
    subs[id][t] - DeltaCount(l, t, "Unsubscribe", id) + DeltaCount(l, t, "Subscribe", id)

C32_Step ==
    IsExecuteStep /\ log' # <<>> =>
        \A i \in 1..Len(log') :
            log'[i].op = "pass" =>
                /\ \A j, k \in ExecsOfPass(log', i) :
                      log'[j].trigger = log'[k].trigger => j = k
                /\ log'[i].subscribed =
                      {t \in TriggerIndices :
                          EntryAfter(subscriptions, SubSeq(log', 1, i - 1), t,
                                     log'[i].identifier) > 0}

\* C32: within one dispatch pass each trigger executes the event at most
\* once, also when it holds several entries for the event's identifier, and
\* the deltas a trigger returns are in the index before anything is
\* dispatched after it: every later pass of the call selects its triggers
\* from the index with all earlier deltas applied.
C32_OncePerPass == [][C32_Step]_vars

\* a trigger holding two entries for the event's identifier executed the
\* event once, and a trigger that subscribed to an action's identifier in
\* the call was selected by the pass of that action
C32_Witness ==
    /\ call = "execute_event"
    /\ \E t \in TriggerIndices :
          /\ Cardinality(ExecsOf(log, t) \cap ExecsOfPass(log, 1)) = 1
          /\ DeltaCount(log, t, "Unsubscribe", log[1].identifier) = 1
          /\ subscriptions[log[1].identifier][t] = 1
    /\ \E i \in 2..Len(log) : \E t \in TriggerIndices :
          /\ log[i].op = "pass"
          /\ t \in log[i].subscribed
          /\ DeltaCount(SubSeq(log, 1, i - 1), t, "Subscribe", log[i].identifier) = 1

\* C33: the actions one execute_event appends to the queue are ordered by
\* cascade depth: every action a trigger emitted at depth k (depth 1 being
\* the host's event) is enqueued before every action emitted at depth k + 1.
C33_BreadthFirst ==
    call = "execute_event" =>
        /\ appended = ActionsOf(log)
        /\ \A j, k \in 1..Len(log) :
              /\ log[j].actions # <<>>
              /\ log[k].actions # <<>>
              /\ log[k].depth = log[j].depth + 1
              => j < k

\* one dispatch pass of the event, nothing re-injected: the result's
\* all_actions are the directly emitted actions
DirectPass(self, event) ==
    DispatchLoop(StartPass(self, identifier(event), 1), event,
                 trigger_indices(self.subscriptions, identifier(event)), 1, 1)

\* the flat worklist: the action at the cursor is re-injected once, what the
\* triggers emit directly is appended behind the list
RECURSIVE Worklist(_, _, _)
WorklistStep(list, i, r) == Worklist(r, list \o r.all_actions, i + 1)

Worklist(acc, list, i) ==
    IF i > Len(list) \/ acc.abort # "" THEN [acc EXCEPT !.all_actions = list]
    ELSE WorklistStep(list, i, DirectPass(acc, From(list[i])))

WorklistFrom(r) == Worklist(r, r.all_actions, 1)

\* the two results agree in what the host can observe
SameOutcome(coded, flat) ==
    /\ coded.abort = flat.abort
    /\ coded.abort = "" =>
          /\ coded.all_actions = flat.all_actions
          /\ coded.triggers = flat.triggers
          /\ coded.subscriptions = flat.subscriptions

\* the system before the initial cascade of CompiledTriggers::new
Collected ==
    CollectLoop([triggers |-> [i \in 1..Len(raw) |-> Trigger_compile(raw[i]).trigger],
                 subscriptions |-> EmptySubscriptions(Len(raw)),
                 all_actions |-> <<>>, log |-> <<>>, abort |-> ""], 1)

\* C34: the cascade as coded is observably equivalent to a flat worklist
\* that re-injects each produced action once: for every reachable state and
\* every event, and for the construction, both yield the same appended
\* actions in the same order, the same trigger states and the same index.
C34_WorklistEquivalence ==
    aborted = "" =>
        /\ \A e \in HostEvents :
              SameOutcome(Outcome(e), WorklistFrom(DirectPass(TriggerSystem, e)))
        /\ call = "new" =>
              SameOutcome([abort |-> "", all_actions |-> action_queue,
                           triggers |-> triggers, subscriptions |-> subscriptions],
                          WorklistFrom(Collected))

\* the dispatch passes of the last call that executed the synthetic event
\* of action x
PassesOfAction(x) ==
    {i \in (IF call = "execute_event" THEN 2 ELSE 1)..Len(log) :
        log[i].op = "pass" /\ log[i].identifier = identifier(From(x))}

\* C35: every action a trigger emits is executed as a synthetic event
\* exactly once, at whatever cascade depth it was emitted, during
\* execute_event and during construction; so a trigger that waits for two
\* occurrences of Action(x) has not fired when x was emitted once.
C35_ExecutedExactlyOnce ==
    \A x \in GameActions :
        Cardinality(PassesOfAction(x)) = Count(appended, x)

\* the synthetic events the last call executed
SyntheticEvents ==
    {i \in (IF call = "execute_event" THEN 2 ELSE 1)..Len(log) : log[i].op = "pass"}

\* C36: construction and every execute_event come to an end, also for
\* triggers whose actions fulfil each other's conditions in a cycle: in one
\* call every trigger fires at most once and hands out its own action list
\* once, so the appended actions are at most all action lists together, the
\* nesting of the cascade is at most the number of triggers plus one, and the
\* number of synthetic events executed is bounded by their product.
C36_Terminates ==
    /\ \A t \in TriggerIndices : FiredIn(log, t) <= 1
    /\ \A j \in 1..Len(log) :
          /\ log[j].depth <= Len(triggers) + 1
          /\ log[j].actions =
                (IF log[j].fired THEN raw[log[j].trigger].actions ELSE <<>>)
    /\ appended = ActionsOf(log)
    /\ Cardinality(SyntheticEvents) <= Len(appended) * (Len(triggers) + 1)

\* a call on triggers whose actions form a cycle (ActivateQuest fulfils the
\* trigger emitting CompleteQuest, CompleteQuest the one emitting
\* ActivateQuest) has returned with both fired
C36_Witness ==
    /\ Len(triggers) = 3
    /\ raw[2].condition = event_count(From("ActivateQuest"), 1)
    /\ raw[3].condition = event_count(From("CompleteQuest"), 1)
    /\ raw[3].actions = <<"ActivateQuest">>
    /\ FiredIn(log, 2) = 1
    /\ FiredIn(log, 3) = 1
    /\ Cardinality(SyntheticEvents) >= 3

\* the Subscribe deltas for the subscriptions of a condition
SubscribeDeltas(c) ==
    [k \in 1..Len(Condition_subscriptions(c)) |->
        [op |-> "Subscribe", identifier |-> Condition_subscriptions(c)[k]]]

\* what executing e on the Sequence c returned as r
SequenceAdvance(c, e, r) ==
    r.abort = "" =>
        LET after == r.trigger.condition
            cursor == c.current_index
        IN  /\ after.current_index \in {cursor, cursor + 1}
            /\ \A i \in (cursor + 1)..Len(c.conditions) :
                  after.conditions[i] = c.conditions[i]
            /\ after.current_index = cursor + 1 /\ cursor + 1 <= Len(c.conditions) =>
                  /\ IsSuffix(SubscribeDeltas(c.conditions[cursor + 1]), r.updates)
                  /\ Len(r.updates) > Len(SubscribeDeltas(c.conditions[cursor + 1]))
                  /\ r.updates[1] = [op |-> "Unsubscribe", identifier |-> identifier(e)]
                  /\ ~r.fired

\* C37: one executed event moves the cursor of a Sequence by at most one
\* position: when the event fulfils the child at the cursor, the next child
\* is left as it was, also when it listens for the same identifier; its
\* subscriptions are returned as Subscribe deltas behind the Unsubscribe of
\* the fulfilled child.
C37_SequenceOneStep ==
    aborted = "" =>
        \A t \in TriggerIndices : \A e \in HostEvents :
            RootIs(t, "Sequence") /\ subscriptions[identifier(e)][t] > 0 =>
                SequenceAdvance(triggers[t].condition, e,
                                Trigger_execute_event(triggers[t], e))

\* execute_event has moved the cursor of sequence([event_count(K0, 1),
\* event_count(K0, n)]) to the second child, which has not counted the event
C37_Witness ==
    /\ call = "execute_event"
    /\ log[1].identifier = identifier(K0)
    /\ RootIs(1, "Sequence")
    /\ Len(raw[1].condition.conditions) = 2
    /\ raw[1].condition.conditions[2].kind = "EventCount"
    /\ raw[1].condition.conditions[2].event = K0
    /\ triggers[1].condition.current_index = 2
    /\ triggers[1].condition.conditions[2].count = 0
    /\ log[2].updates = <<Unsubscribe(identifier(K0)), Subscribe(identifier(K0))>>

\* the sum of the values of s at the positions in S
RECURSIVE SumAt(_, _)
SumAt(s, S) ==
    IF S = {} THEN F64(0)
    ELSE LET i == CHOOSE i \in S : TRUE IN FAdd(s[i], SumAt(s, S \ {i}))

\* the least of a non-empty set of f64 values
Least(values) == CHOOSE v \in values : \A w \in values : FLeq(v, w)

\* required progress by its recursive definition, on all children of the
\* node, active or fulfilled
RECURSIVE RequiredByDefinition(_)
RequiredByDefinition(c) ==
    LET children == ChildrenOf(c)
        values == [i \in 1..Len(children) |-> RequiredByDefinition(children[i])]
    IN  CASE c.kind = "None" -> F64(0)
          [] c.kind = "Never" \/ c.kind \in CmpKinds -> F64(1)
          [] c.kind = "EventCount" -> F64(c.required)
          [] c.kind \in {"Sequence", "And"} -> SumAt(values, 1..Len(values))
          [] c.kind = "Or" ->
                IF values = <<>> THEN F64(0) ELSE Least(Range(values))
          [] c.kind = "AnyN" ->
                Least({SumAt(values, S) :
                          S \in {S \in SUBSET (1..Len(values)) :
                                    Cardinality(S) = Min(c.n, Len(values))}})

\* every node of the tree stores the required progress of the definition
RECURSIVE RequiredEverywhere(_)
RequiredEverywhere(c) ==
    /\ c.required_progress = RequiredByDefinition(c)
    /\ \A i \in 1..Len(ChildrenOf(c)) : RequiredEverywhere(ChildrenOf(c)[i])

\* C38: the required_progress stored at every node equals the recursive
\* definition (None 0; Never and comparisons 1; EventCount required;
\* Sequence and And the sum over all children; Or the minimum over active
\* and fulfilled children, 0 without children; AnyN the sum of the n
\* smallest child values), and the second component of progress(handle) is
\* the value fixed at compile time after any number of events, also when
\* children have moved from the active to the fulfilled list.
C38_RequiredProgressFixed ==
    \A t \in TriggerIndices :
        /\ RequiredEverywhere(triggers[t].condition)
        /\ progress(t)[1][2] = compile(raw[t].condition).condition.required_progress

\* an And, Or or AnyN with a child moved to the fulfilled list by an event
\* and another child still active
C38_Witness ==
    /\ call = "execute_event"
    /\ \E t \in TriggerIndices :
          /\ raw[t].condition.kind \in {"And", "AnyN"}
          /\ triggers[t].condition.conditions # <<>>
          /\ \E i \in 1..Len(triggers[t].condition.fulfilled_conditions) :
                /\ triggers[t].condition.fulfilled_conditions[i].kind = "EventCount"
                /\ triggers[t].condition.fulfilled_conditions[i].count >= 1
          /\ progress(t)[1][2] = F64(2)

\* the step handed actions to the host: the queue got shorter or the
\* returned value changed
ConsumeObserved ==
    \/ Len(action_queue') < Len(action_queue)
    \/ consumed' # consumed

\* what the host can see of execute_event(e): the actions it appends, and
\* the triggers and index it leaves
Observable(r) ==
    [abort |-> r.abort, all_actions |-> r.all_actions, triggers |-> r.triggers,
     subscriptions |-> r.subscriptions]

\* the step is execute_event(e) as the triggers and the index alone
\* determine it
ExecutesAs(e) ==
    Observable(Outcome(e)) =
        [abort |-> "", all_actions |-> appended', triggers |-> triggers',
         subscriptions |-> subscriptions']

C39_Step ==
    /\ ConsumeObserved => UNCHANGED <<raw, triggers, subscriptions, aborted, fired>>
    /\ ~ConsumeObserved /\ IsExecuteStep /\ log' # <<>> =>
          \E e \in HostEvents :
              identifier(e) = Head(log').identifier /\ ExecutesAs(e)

\* C39: consume_action and consume_all_actions change the action queue
\* only: the condition state and actions slot of every trigger and the
\* subscription index stay as they are, so every later event produces the
\* same actions and leaves the same triggers whether or not the host has
\* consumed actions before it.
C39_ConsumeFrame == [][C39_Step]_vars

\* the host consumed queued actions and a later event produced new ones,
\* which are all that is pending
C39_Witness ==
    /\ call = "execute_event"
    /\ consumed # None
    /\ appended # <<>>
    /\ action_queue = appended
    /\ \E t \in TriggerIndices : ~Trigger_completed(triggers[t])

====
